---- MODULE Spec2Model ----
(***************************************************************************)
(* A model of the cookie jar of package cookie (jar.go) together with the  *)
(* host canonicalisation it depends on (jar.go, puny.go).                  *)
(*                                                                         *)
(* A Go string is modelled as a sequence of code points.  Every byte index *)
(* the code takes is taken at an ASCII character, where byte and code      *)
(* point positions agree.  Go indices are 0-based; the helpers below keep  *)
(* the 0-based convention of the source.                                   *)
(***************************************************************************)
EXTENDS Integers, Sequences, FiniteSets, TLC

VARIABLES
    psl,     \* Jar.psl: the public suffix list handed to NewJar (or Nil)
    ent,     \* Jar.ent: root -> (key -> jarEntry)
    last,    \* the call that produced this state, its arguments and result
    owner,   \* history: <<root, key>> of a stored entry -> host that set it
    kept,    \* history: <<root, key>> -> entry of the last SetCookie for
             \* that key, while that call asked to keep the cookie
    evicted, \* history: the <<root, key>> of kept whose bucket a Cookies
             \* call has read at or after the entry's Expires
    nset,    \* number of cookies stored so far
    mutex,   \* the lock the callers share: "absent" when they use none,
             \* else "free" or the caller inside a call
    dir,     \* Jar.ent as the map of maps it is: root -> bucket object
    heap,    \* the bucket objects: object -> (key -> jarEntry)
    procs    \* caller -> the call it is in and the statement it is at

\* the variables of the runs in which the statements of calls interleave;
\* in those runs ent is what dir and heap make of Jar.ent
stepVars == <<mutex, dir, heap, procs>>

vars == <<psl, ent, last, owner, kept, evicted, nset, stepVars>>

(***************************************************************************)
(* Bounds of the model.                                                    *)
(***************************************************************************)
MaxTime == 2      \* `now` ranges over 1..MaxTime
MaxSets == 2      \* SetCookie calls in one run
MaxHost == 4      \* length of the hosts canonicalHost is applied to
MaxLabel == 3     \* length of the labels encode is applied to
MaxAttrs == 2     \* unparsed attributes of a cookie Marshal is applied to

(***************************************************************************)
(* Characters the code tests for.                                          *)
(***************************************************************************)
Dot    == 46
Colon  == 58
Semi   == 59
Slash  == 47
LBrack == 91
RBrack == 93

Nil == "nil"
Empty == << >>

(***************************************************************************)
(* String helpers (package strings and Go slicing).                        *)
(***************************************************************************)
\* s[i:j]
\* the element of a one-element set.  Only({F(x) : x \in {v}}) is F(v) with v
\* computed once, as a local variable `x := v` of the code is
Only(S) == CHOOSE x \in S : TRUE

Slice(s, i, j) == SubSeq(s, i + 1, j)

\* s[i]
At(s, i) == s[i + 1]

\* strings.IndexByte(s, ch)
IndexByte(s, ch) ==
    IF \E i \in 1..Len(s) : s[i] = ch
    THEN (CHOOSE i \in 1..Len(s) : s[i] = ch /\ \A j \in 1..(i - 1) : s[j] # ch) - 1
    ELSE -1

\* strings.LastIndex(s, string(ch))
LastIndex(s, ch) ==
    IF \E i \in 1..Len(s) : s[i] = ch
    THEN (CHOOSE i \in 1..Len(s) : s[i] = ch /\ \A j \in (i + 1)..Len(s) : s[j] # ch) - 1
    ELSE -1

\* strings.HasPrefix(s, prefix)
HasPrefix(s, prefix) ==
    Len(s) >= Len(prefix) /\ SubSeq(s, 1, Len(prefix)) = prefix

\* strings.Split(s, string(sep))
RECURSIVE Split(_, _)
Split(s, sep) ==
    LET i == IndexByte(s, sep)
    IN  IF i < 0 THEN <<s>>
        ELSE <<Slice(s, 0, i)>> \o Split(Slice(s, i + 1, Len(s)), sep)

\* strings.Join(parts, string(sep))
RECURSIVE Join(_, _)
Join(parts, sep) ==
    IF Len(parts) = 0 THEN Empty
    ELSE IF Len(parts) = 1 THEN parts[1]
    ELSE parts[1] \o <<sep>> \o Join(Tail(parts), sep)

\* unicode.ToLower on one code point: ASCII and Latin-1 letters
LowerRune(r) ==
    IF r >= 65 /\ r <= 90 THEN r + 32
    ELSE IF r >= 192 /\ r <= 222 /\ r # 215 THEN r + 32
    ELSE r

\* strings.ToLower(s)
ToLower(s) == [i \in 1..Len(s) |-> LowerRune(s[i])]

IsDigit(r) == r >= 48 /\ r <= 57
IsHex(r) == IsDigit(r) \/ (r >= 97 /\ r <= 102) \/ (r >= 65 /\ r <= 70)

RECURSIVE DecValue(_)
DecValue(s) ==
    IF Len(s) = 0 THEN 0
    ELSE 10 * DecValue(SubSeq(s, 1, Len(s) - 1)) + (s[Len(s)] - 48)

(***************************************************************************)
(* net.ParseIP, as far as the hosts of the model go: dotted-quad IPv4 and  *)
(* colon-separated IPv6 with at most one "::" (no embedded IPv4, no zone). *)
(***************************************************************************)
IsIPv4Field(f) ==
    /\ Len(f) >= 1 /\ Len(f) <= 3
    /\ \A i \in 1..Len(f) : IsDigit(f[i])
    /\ DecValue(f) <= 255

IsIPv4(s) ==
    LET fs == Split(s, Dot)
    IN  Len(fs) = 4 /\ \A i \in 1..4 : IsIPv4Field(fs[i])

IsIPv6Field(f) ==
    Len(f) >= 1 /\ Len(f) <= 4 /\ \A i \in 1..Len(f) : IsHex(f[i])

IsIPv6(s) ==
    LET fs    == Split(s, Colon)
        n     == Len(fs)
        gaps  == {i \in 1..(Len(s) - 1) : s[i] = Colon /\ s[i + 1] = Colon}
        full  == {i \in 1..n : Len(fs[i]) > 0}
    IN  /\ Len(s) >= 2
        /\ \A i \in full : IsIPv6Field(fs[i])
        /\ Cardinality(gaps) <= 1
        /\ (s[1] = Colon => s[2] = Colon)
        /\ (s[Len(s)] = Colon => s[Len(s) - 1] = Colon)
        /\ IF gaps = {} THEN n = 8 ELSE Cardinality(full) <= 7

\* isIP(host)
isIP(host) == IsIPv4(host) \/ IsIPv6(host)

\* hasDotSuffix without the test for the dot before the suffix
hasDotSuffix_NoDot(s, suffix) ==
    /\ Len(s) > Len(suffix)
    /\ Slice(s, Len(s) - Len(suffix), Len(s)) = suffix

\* hasDotSuffix(s, suffix)
hasDotSuffix(s, suffix) ==
    /\ Len(s) > Len(suffix)
    /\ At(s, Len(s) - Len(suffix) - 1) = Dot
    /\ Slice(s, Len(s) - Len(suffix), Len(s)) = suffix

(***************************************************************************)
(* Punycode (RFC 3492) encoder and toASCII.                                *)
(***************************************************************************)
base == 36
damp == 700
skew == 38
tmax == 26
tmin == 1
initialBias == 72
initialN == 128
MaxInt32 == 2147483647

errInvalidScheme   == "invalid scheme"
errNoHostname      == "no hostname"
errMalformedDomain == "malformed domain"
errIllegalDomain   == "illegal domain"
errInvalidDomain   == "invalid domain"
errAddr            == "net.AddrError"   \* the error of net.SplitHostPort
Panic              == "panic"           \* the call does not return

\* isASCII(s)
isASCII(s) == \A i \in 1..Len(s) : s[i] < 128

\* the loop of adapt: for delta > ((base-tmin)*tmax)/2 { ... }
RECURSIVE adaptLoop(_, _)
adaptLoop(delta, k) ==
    IF delta > ((base - tmin) * tmax) \div 2
    THEN adaptLoop(delta \div (base - tmin), k + base)
    ELSE k + ((base - tmin + 1) * delta) \div (delta + skew)

\* adapt that halves the first delta as it does the others
adapt_NoDamp(delta, points, first) ==
    LET d1 == delta \div 2
    IN  adaptLoop(d1 + d1 \div points, 0)

\* adapt(delta, points, first)
adapt(delta, points, first) ==
    LET d1 == IF first THEN delta \div damp ELSE delta \div 2
    IN  adaptLoop(d1 + d1 \div points, 0)

\* the byte appended for a digit: 'a'+digit or '0'-26+digit
digitByte(digit) == IF digit < 26 THEN 97 + digit ELSE 48 - 26 + digit

\* the threshold without the lower clamp
threshold_NoMin(k, bias) ==
    IF k - bias > tmax THEN tmax ELSE k - bias

\* t = k - bias clamped to [tmin, tmax]
threshold(k, bias) ==
    IF k - bias < tmin THEN tmin
    ELSE IF k - bias > tmax THEN tmax
    ELSE k - bias

\* the inner `for { ... }` of encode and the final digit, as appended bytes
RECURSIVE encodeDigits(_, _, _)
encodeDigits(q, k, bias) ==
    LET t == threshold(k, bias)
    IN  IF q < t THEN <<digitByte(q)>>
        ELSE <<digitByte(t + ((q - t) % (base - t)))>>
             \o encodeDigits((q - t) \div (base - t), k + base, bias)

\* the loop `for _, r := range s` that encodes the code points equal to n
RECURSIVE encodeRunes(_, _, _, _, _)
encodeRunes(s, i, n, b, st) ==
    IF i > Len(s) \/ st.err THEN st
    ELSE IF s[i] < n
         THEN IF st.d = MaxInt32   \* d++ wraps below zero
              THEN [st EXCEPT !.err = TRUE]
              ELSE encodeRunes(s, i + 1, n, b, [st EXCEPT !.d = @ + 1])
    ELSE IF s[i] > n
         THEN encodeRunes(s, i + 1, n, b, st)
    ELSE encodeRunes(s, i + 1, n, b,
             [d    |-> 0,
              h    |-> st.h + 1,
              rem  |-> st.rem - 1,
              bias |-> adapt(st.d, st.h + 1, st.h = b),
              buf  |-> st.buf \o encodeDigits(st.d, base, st.bias),
              err  |-> FALSE])

\* the minimum rune >= n in the input (0x7fffffff when there is none)
minRune(s, n) ==
    LET cand == {s[i] : i \in {j \in 1..Len(s) : s[j] >= n}}
    IN  IF cand = {} THEN MaxInt32
        ELSE CHOOSE m \in cand : \A x \in cand : m <= x

\* the loop `for rem > 0`
RECURSIVE encodeLoop(_, _, _, _)
encodeLoop(s, n, b, st) ==
    IF st.err \/ st.rem <= 0 THEN st
    ELSE LET m  == minRune(s, n)
             d1 == st.d + ((m - n) * (st.h + 1))
         IN  IF d1 < 0 THEN [st EXCEPT !.err = TRUE]
             ELSE LET st2 == encodeRunes(s, 1, m, b, [st EXCEPT !.d = d1])
                  IN  IF st2.err THEN st2
                      ELSE encodeLoop(s, m + 1, b, [st2 EXCEPT !.d = @ + 1])

\* encode(s, buf): [str, err]
encode(s) ==
    LET ascii == SelectSeq(s, LAMBDA r : r < 128)
        b     == Len(ascii)
        st0   == [d    |-> 0,
                  h    |-> b,
                  rem  |-> Len(s) - b,
                  bias |-> initialBias,
                  buf  |-> <<120, 110, 45, 45>> \o ascii
                           \o (IF b > 0 THEN <<45>> ELSE Empty),
                  err  |-> FALSE]
        st    == encodeLoop(s, initialN, b, st0)
    IN  IF st.err THEN [str |-> Empty, err |-> errInvalidDomain]
        ELSE [str |-> st.buf, err |-> Nil]

\* toASCII(domain): [str, err]
toASCII(domain) ==
    IF isASCII(domain) THEN [str |-> domain, err |-> Nil]
    ELSE LET labels == Split(domain, Dot)
             enc    == [i \in 1..Len(labels) |->
                           IF isASCII(labels[i])
                           THEN [str |-> labels[i], err |-> Nil]
                           ELSE encode(labels[i])]
         IN  IF \E i \in 1..Len(labels) : enc[i].err # Nil
             THEN [str |-> Empty, err |-> errInvalidDomain]
             ELSE [str |-> Join([i \in 1..Len(labels) |-> enc[i].str], Dot),
                   err |-> Nil]

(***************************************************************************)
(* Host canonicalisation.                                                  *)
(***************************************************************************)
\* hasPort(addr): [panics, port]; the read of addr[i-1] at a colon in
\* position 0 is out of range
hasPort(addr) ==
    LET colons == {i \in 0..(Len(addr) - 1) : At(addr, i) = Colon}
        lastc  == CHOOSE i \in colons : \A j \in colons : j <= i
    IN  IF Len(addr) = 0 THEN [panics |-> FALSE, port |-> FALSE]
        ELSE IF 0 \in colons THEN [panics |-> TRUE, port |-> FALSE]
        ELSE IF Cardinality(colons) = 0 THEN [panics |-> FALSE, port |-> FALSE]
        ELSE IF Cardinality(colons) = 1 THEN [panics |-> FALSE, port |-> TRUE]
        ELSE [panics |-> FALSE,
              port   |-> At(addr, 0) = LBrack /\ At(addr, lastc - 1) = RBrack]

\* net.SplitHostPort(hostport), called only when hostport holds a colon:
\* [host, err]
SplitHostPort(hostport) ==
    LET i    == LastIndex(hostport, Colon)
        end  == IndexByte(hostport, RBrack)
        bad  == [host |-> Empty, err |-> errAddr]
        rest(host, j, k) ==
            IF IndexByte(Slice(hostport, j, Len(hostport)), LBrack) >= 0 THEN bad
            ELSE IF IndexByte(Slice(hostport, k, Len(hostport)), RBrack) >= 0 THEN bad
            ELSE [host |-> host, err |-> Nil]
    IN  IF i < 0 THEN bad
        ELSE IF At(hostport, 0) = LBrack
             THEN IF end < 0 THEN bad
                  ELSE IF end + 1 = Len(hostport) THEN bad
                  ELSE IF end + 1 # i THEN bad
                  ELSE rest(Slice(hostport, 1, end), 1, end + 1)
        ELSE IF IndexByte(Slice(hostport, 0, i), Colon) >= 0 THEN bad
        ELSE rest(Slice(hostport, 0, i), 0, 0)

\* canonicalHost(host): [host, err]
canonicalHost(host) ==
    LET lower == ToLower(host)
        port  == hasPort(lower)
        split == SplitHostPort(lower)
        ascii(h) == LET r == toASCII(h) IN [host |-> r.str, err |-> r.err]
    IN  IF port.panics THEN [host |-> Empty, err |-> Panic]
        ELSE IF port.port
             THEN IF split.err # Nil THEN [host |-> Empty, err |-> split.err]
                  ELSE ascii(split.host)
        ELSE ascii(lower)

(***************************************************************************)
(* The public suffix list.  NewJar takes any implementation of the         *)
(* PublicSuffixList interface, or nil; the model has the jar built with    *)
(* nil or with a list that knows the suffixes of PublicSuffixes and        *)
(* answers with the longest one the domain ends in ("" when there is none).*)
(* PslOdd is an implementation that keeps no such promise: it answers "x"  *)
(* whatever the domain.                                                    *)
(***************************************************************************)
PublicSuffixes == { <<99>> }                    \* "c"
PslList == "list"
PslOdd == "odd"
OddSuffix == <<120>>                            \* "x"

\* psl.PublicSuffix(domain)
PublicSuffix(p, domain) ==
    LET match == {x \in PublicSuffixes : domain = x \/ hasDotSuffix(domain, x)}
    IN  IF p = PslOdd THEN OddSuffix
        ELSE IF match = {} THEN Empty
        ELSE CHOOSE x \in match : \A y \in match : Len(y) <= Len(x)

(***************************************************************************)
(* time.Time is a number of seconds; 0 is the zero Time.                   *)
(***************************************************************************)
Second == 1
IsZero(t) == t = 0
After(t, u) == t > u

\* the zero jarEntry
zeroEntry ==
    [Root |-> Empty, Key |-> Empty, Created |-> 0, Expires |-> 0,
     HostOnly |-> FALSE, Name |-> Empty, Value |-> Empty, Domain |-> Empty,
     Path |-> Empty, Secure |-> FALSE, HttpOnly |-> FALSE]

\* validateDomain without the test of the domain against the public suffixes
validateDomain_NoSuffixCheck(host, domain, p) ==
    LET fail(e) == [domain |-> Empty, hostOnly |-> FALSE, err |-> e]
        d1 == IF At(domain, 0) = Dot THEN Slice(domain, 1, Len(domain)) ELSE domain
        d2 == ToLower(d1)
    IN  IF domain = Empty THEN [domain |-> host, hostOnly |-> TRUE, err |-> Nil]
        ELSE IF isIP(host) THEN fail(errNoHostname)
        ELSE IF d1 = Empty \/ At(d1, 0) = Dot \/ At(d1, Len(d1) - 1) = Dot
             THEN fail(errMalformedDomain)
        ELSE IF p # Nil /\ host # d2 /\ ~hasDotSuffix(host, d2)
             THEN fail(errIllegalDomain)
        ELSE [domain |-> d2, hostOnly |-> FALSE, err |-> Nil]

\* validateDomain(host, domain, psl): [domain, hostOnly, err]
validateDomain(host, domain, p) ==
    LET fail(e) == [domain |-> Empty, hostOnly |-> FALSE, err |-> e]
        d1 == IF At(domain, 0) = Dot THEN Slice(domain, 1, Len(domain)) ELSE domain
        d2 == ToLower(d1)
        suffix == PublicSuffix(p, d2)
    IN  IF domain = Empty THEN [domain |-> host, hostOnly |-> TRUE, err |-> Nil]
        ELSE IF isIP(host) THEN fail(errNoHostname)
        ELSE IF d1 = Empty \/ At(d1, 0) = Dot \/ At(d1, Len(d1) - 1) = Dot
             THEN fail(errMalformedDomain)
        ELSE IF p # Nil /\ suffix # Empty /\ ~hasDotSuffix(d2, suffix)
             THEN IF host = d2
                  THEN [domain |-> host, hostOnly |-> TRUE, err |-> Nil]
                  ELSE fail(errIllegalDomain)
        ELSE IF p # Nil /\ host # d2 /\ ~hasDotSuffix(host, d2)
             THEN fail(errIllegalDomain)
        ELSE [domain |-> d2, hostOnly |-> FALSE, err |-> Nil]

\* domainRoot(host, psl)
domainRoot(host, p) ==
    LET suffix == PublicSuffix(p, host)
        i      == Len(host) - Len(suffix)
    IN  IF isIP(host) THEN host
        ELSE IF p = Nil THEN Empty
        ELSE IF suffix = host THEN host
        ELSE IF i > 0 /\ At(host, i - 1) = Dot
             THEN Slice(host, LastIndex(Slice(host, 0, i - 1), Dot) + 1, Len(host))
        ELSE Empty

\* a key without the Path
entryKey_NoPath(e) == e.Domain \o <<Semi>> \o e.Name

\* entry.Domain + ";" + entry.Path + ";" + entry.Name
entryKey(e) == e.Domain \o <<Semi>> \o e.Path \o <<Semi>> \o e.Name

\* newEntry that looks at the Expires attribute before Max-Age
newEntry_ExpiresFirst(c, host, p, now) ==
    LET made(vd) ==
            LET e1 == [zeroEntry EXCEPT
                          !.Created  = now,
                          !.Name     = c.Name,
                          !.Value    = c.Value,
                          !.Secure   = c.Secure,
                          !.HttpOnly = c.HttpOnly,
                          !.Domain   = vd.domain,
                          !.HostOnly = vd.hostOnly,
                          !.Path     = IF c.Path = Empty \/ At(c.Path, 0) # Slash
                                       THEN <<Slash>> ELSE c.Path]
                book(e) == [e EXCEPT !.Root = domainRoot(host, p),
                                     !.Key  = entryKey(e)]
            IN  IF vd.err # Nil
                THEN [entry |-> zeroEntry, remove |-> FALSE, err |-> vd.err]
                ELSE IF ~IsZero(c.Expires)
                     THEN IF After(c.Expires, now)
                          THEN [entry  |-> book([e1 EXCEPT !.Expires = c.Expires]),
                                remove |-> FALSE, err |-> Nil]
                          ELSE [entry |-> e1, remove |-> TRUE, err |-> Nil]
                ELSE IF c.MaxAge < 0 THEN [entry |-> e1, remove |-> TRUE, err |-> Nil]
                ELSE IF c.MaxAge > 0
                     THEN [entry  |-> book([e1 EXCEPT
                                               !.Expires = now + c.MaxAge * Second]),
                           remove |-> FALSE, err |-> Nil]
                ELSE [entry |-> book(e1), remove |-> FALSE, err |-> Nil]
    IN  Only({made(vd) : vd \in {validateDomain(host, c.Domain, p)}})

\* newEntry(c, host, psl, now): [entry, remove, err]
newEntry(c, host, p, now) ==
    LET made(vd) ==
            LET e1 == [zeroEntry EXCEPT
                          !.Created  = now,
                          !.Name     = c.Name,
                          !.Value    = c.Value,
                          !.Secure   = c.Secure,
                          !.HttpOnly = c.HttpOnly,
                          !.Domain   = vd.domain,
                          !.HostOnly = vd.hostOnly,
                          !.Path     = IF c.Path = Empty \/ At(c.Path, 0) # Slash
                                       THEN <<Slash>> ELSE c.Path]
                book(e) == [e EXCEPT !.Root = domainRoot(host, p),
                                     !.Key  = entryKey(e)]
            IN  IF vd.err # Nil
                THEN [entry |-> zeroEntry, remove |-> FALSE, err |-> vd.err]
                ELSE IF c.MaxAge < 0 THEN [entry |-> e1, remove |-> TRUE, err |-> Nil]
                ELSE IF c.MaxAge > 0
                     THEN [entry  |-> book([e1 EXCEPT
                                               !.Expires = now + c.MaxAge * Second]),
                           remove |-> FALSE, err |-> Nil]
                ELSE IF ~IsZero(c.Expires)
                     THEN IF After(c.Expires, now)
                          THEN [entry  |-> book([e1 EXCEPT !.Expires = c.Expires]),
                                remove |-> FALSE, err |-> Nil]
                          ELSE [entry |-> e1, remove |-> TRUE, err |-> Nil]
                ELSE [entry |-> book(e1), remove |-> FALSE, err |-> Nil]
    IN  Only({made(vd) : vd \in {validateDomain(host, c.Domain, p)}})

\* shouldSend without the test of Secure
shouldSend_NoSecure(entry, scheme, host, path) ==
    IF entry.Domain # host /\ (entry.HostOnly \/ ~hasDotSuffix(host, entry.Domain))
    THEN FALSE
    ELSE IF path # entry.Path /\ ~HasPrefix(path, entry.Path) THEN FALSE
    ELSE IF /\ path # entry.Path
            /\ At(entry.Path, Len(entry.Path) - 1) # Slash
            /\ At(path, Len(entry.Path)) # Slash
         THEN FALSE
    ELSE TRUE

\* shouldSend without the test of the byte after the prefix
shouldSend_NoBoundary(entry, scheme, host, path) ==
    IF entry.Secure /\ scheme # "https" THEN FALSE
    ELSE IF entry.Domain # host /\ (entry.HostOnly \/ ~hasDotSuffix(host, entry.Domain))
         THEN FALSE
    ELSE IF path # entry.Path /\ ~HasPrefix(path, entry.Path) THEN FALSE
    ELSE TRUE

\* shouldSend that sends an entry to its own path only
shouldSend_ExactPath(entry, scheme, host, path) ==
    IF entry.Secure /\ scheme # "https" THEN FALSE
    ELSE IF entry.Domain # host /\ (entry.HostOnly \/ ~hasDotSuffix(host, entry.Domain))
         THEN FALSE
    ELSE path = entry.Path

\* entry.shouldSend(scheme, host, path)
shouldSend(entry, scheme, host, path) ==
    IF entry.Secure /\ scheme # "https" THEN FALSE
    ELSE IF entry.Domain # host /\ (entry.HostOnly \/ ~hasDotSuffix(host, entry.Domain))
         THEN FALSE
    ELSE IF path # entry.Path /\ ~HasPrefix(path, entry.Path) THEN FALSE
    ELSE IF /\ path # entry.Path
            /\ At(entry.Path, Len(entry.Path) - 1) # Slash
            /\ At(path, Len(entry.Path)) # Slash
         THEN FALSE
    ELSE TRUE

\* the bytes shouldSend indexes in its test of the path: <<string, index>>
shouldSendReads(entry, path) ==
    IF path = entry.Path \/ ~HasPrefix(path, entry.Path) THEN {}
    ELSE {<<entry.Path, Len(entry.Path) - 1>>}
         \cup (IF entry.Path # Empty /\ At(entry.Path, Len(entry.Path) - 1) # Slash
               THEN {<<path, Len(entry.Path)>>} ELSE {})

(***************************************************************************)
(* Go maps as functions.                                                   *)
(***************************************************************************)
EmptyMap == [x \in {} |-> x]
MapPut(m, k, v) == [x \in (DOMAIN m) \cup {k} |-> IF x = k THEN v ELSE m[x]]
MapDelete(m, k) == [x \in (DOMAIN m) \ {k} |-> m[x]]
Values(m) == {m[k] : k \in DOMAIN m}

\* no caller is known: every call is one step of the run
NoCallers == mutex = "absent" /\ dir = EmptyMap /\ heap = EmptyMap /\ procs = EmptyMap

\* every <<root, key>> the jar holds an entry under
Slots(j) == UNION {{<<r, k>> : k \in DOMAIN j[r]} : r \in DOMAIN j}
\* every entry of the jar
Entries(j) == UNION {Values(j[r]) : r \in DOMAIN j}

\* set that starts the bucket afresh
set_Fresh(j, entry) ==
    MapPut(j, entry.Root, MapPut(EmptyMap, entry.Key, entry))

\* j.set(entry)
set(j, entry) ==
    LET bucket == IF entry.Root \in DOMAIN j THEN j[entry.Root] ELSE EmptyMap
    IN  MapPut(j, entry.Root, MapPut(bucket, entry.Key, entry))

\* j.remove(entry)
remove(j, entry) ==
    IF entry.Root \notin DOMAIN j THEN j
    ELSE LET bucket == MapDelete(j[entry.Root], entry.Key)
         IN  IF DOMAIN bucket = {} THEN MapDelete(j, entry.Root)
             ELSE MapPut(j, entry.Root, bucket)

\* expired with Before in the place of !After
expired_Strict(entry, now) == ~IsZero(entry.Expires) /\ After(now, entry.Expires)

\* expired without the test for the zero time
expired_NoZero(entry, now) == ~After(entry.Expires, now)

\* !entry.Expires.IsZero() && !entry.Expires.After(now)
expired(entry, now) == ~IsZero(entry.Expires) /\ ~After(entry.Expires, now)

\* the loop of Cookies over the bucket: the bucket after the deletions
evict(bucket, now) ==
    LET dead == {entryKey(bucket[k]) : k \in {x \in DOMAIN bucket : expired(bucket[x], now)}}
    IN  [k \in (DOMAIN bucket) \ dead |-> bucket[k]]

\* the loop of Cookies over the bucket: the entries a cookie is appended for
collect(bucket, scheme, host, path, now) ==
    {e \in Values(bucket) : shouldSend(e, scheme, host, path)}

(***************************************************************************)
(* The two methods of Jar as functions of the jar and the arguments.       *)
(***************************************************************************)
\* cookiesLoop that deletes an expired entry only when it sends it
cookiesLoop_EvictSent(j, p, scheme, host, path, now) ==
    LET loop(root, bucket) ==
            LET sent  == collect(bucket, scheme, host, path, now)
                after == [k \in {x \in DOMAIN bucket :
                                    ~(expired(bucket[x], now) /\ bucket[x] \in sent)}
                             |-> bucket[k]]
            IN  [ent  |-> IF root \notin DOMAIN j THEN j
                          ELSE IF DOMAIN after = {} THEN MapDelete(j, root)
                          ELSE MapPut(j, root, after),
                 from |-> sent]
    IN  Only({loop(root, IF root \in DOMAIN j THEN j[root] ELSE EmptyMap) :
                 root \in {domainRoot(host, p)}})

\* cookiesLoop without the removal of the empty bucket
cookiesLoop_KeepBucket(j, p, scheme, host, path, now) ==
    LET loop(root, bucket) ==
            [ent  |-> IF root \notin DOMAIN j THEN j
                      ELSE MapPut(j, root, evict(bucket, now)),
             from |-> collect(bucket, scheme, host, path, now)]
    IN  Only({loop(root, IF root \in DOMAIN j THEN j[root] ELSE EmptyMap) :
                 root \in {domainRoot(host, p)}})

\* the body of Cookies from `root := domainRoot(host, j.psl)` on: the jar it
\* leaves and the entries it appends a cookie for
cookiesLoop(j, p, scheme, host, path, now) ==
    LET loop(root, bucket) ==
            LET after == evict(bucket, now)
            IN  [ent  |-> IF root \notin DOMAIN j THEN j
                          ELSE IF DOMAIN after = {} THEN MapDelete(j, root)
                          ELSE MapPut(j, root, after),
                 from |-> collect(bucket, scheme, host, path, now)]
    IN  Only({loop(root, IF root \in DOMAIN j THEN j[root] ELSE EmptyMap) :
                 root \in {domainRoot(host, p)}})

\* Cookies that runs its loop before it looks at the scheme
cookiesCall_EvictFirst(j, p, scheme, host, path, now) ==
    LET failed(e, jar) == [err |-> e, host |-> Empty, ent |-> jar, from |-> {}]
        looked(ch, lp) ==
            IF scheme # "http" /\ scheme # "https"
            THEN failed(errInvalidScheme, lp.ent)
            ELSE [err |-> Nil, host |-> ch.host, ent |-> lp.ent, from |-> lp.from]
        hosted(ch) ==
            IF ch.err # Nil THEN failed(ch.err, j)
            ELSE Only({looked(ch, lp) :
                          lp \in {cookiesLoop(j, p, scheme, ch.host, path, now)}})
    IN  Only({hosted(ch) : ch \in {canonicalHost(host)}})

\* j.Cookies(scheme, host, path, now): [err, host, ent, from]
cookiesCall(j, p, scheme, host, path, now) ==
    LET failed(e) == [err |-> e, host |-> Empty, ent |-> j, from |-> {}]
        looked(ch, lp) ==
            [err |-> Nil, host |-> ch.host, ent |-> lp.ent, from |-> lp.from]
        hosted(ch) ==
            IF ch.err # Nil THEN failed(ch.err)
            ELSE Only({looked(ch, lp) :
                          lp \in {cookiesLoop(j, p, scheme, ch.host, path, now)}})
    IN  IF scheme # "http" /\ scheme # "https" THEN failed(errInvalidScheme)
        ELSE Only({hosted(ch) : ch \in {canonicalHost(host)}})

\* j.SetCookie(scheme, host, path, c, now): [err, host, ent, entry, remove]
setCookieCall(j, p, scheme, host, path, c, now) ==
    LET failed(e, h) == [err |-> e, host |-> h, ent |-> j,
                         entry |-> zeroEntry, remove |-> FALSE]
        stored(ch, ne) ==
            IF ne.err # Nil THEN failed(ne.err, ch.host)
            ELSE [err    |-> Nil,
                  host   |-> ch.host,
                  ent    |-> IF ne.remove THEN remove(j, ne.entry)
                             ELSE set(j, ne.entry),
                  entry  |-> ne.entry,
                  remove |-> ne.remove]
        hosted(ch) ==
            IF ch.err # Nil THEN failed(ch.err, Empty)
            ELSE Only({stored(ch, ne) : ne \in {newEntry(c, ch.host, p, now)}})
    IN  IF scheme # "http" /\ scheme # "https" THEN failed(errInvalidScheme, Empty)
        ELSE Only({hosted(ch) : ch \in {canonicalHost(host)}})

(***************************************************************************)
(* The cookie codec (cookie.go).  Header text is a sequence of bytes.      *)
(***************************************************************************)
Space  == 32
Tab    == 9
Comma  == 44
Quote  == 34
Equals == 61
Hyphen == 45

errMarshalName   == "cookie.Marshal: invalid cookie name"
errMarshalValue  == "cookie.Marshal: invalid cookie value"
errMarshalDomain == "cookie.Marshal: invalid Domain value"
errMarshalPath   == "cookie.Marshal: invalid Path value"
errMarshalAttr   == "cookie.Marshal: invalid attribute"
errParseMissing  == "cookie.Parse: missing cookie value"
errParseName     == "cookie.Parse: invalid cookie name"
errParseValue    == "cookie.Parse: invalid cookie value"
errParseDomain   == "cookie.Parse: invalid Domain value"
errParseExpires  == "cookie.Parse: invalid Expires value"
errParseMaxAge   == "cookie.Parse: invalid Max-Age value"

\* the Cookie struct with every field at its zero value
noCookie ==
    [Name |-> Empty, Value |-> Empty, Domain |-> Empty, Path |-> Empty,
     Expires |-> 0, Secure |-> FALSE, HttpOnly |-> FALSE, MaxAge |-> 0,
     Unparsed |-> Empty]

\* chars[c]&nameChar != 0
nameChar(c) ==
    /\ c >= 32 /\ c < 127
    /\ c \notin {40, 41, 60, 62, 64, Comma, Semi, Colon, 92, Quote, Slash,
                 LBrack, RBrack, 63, Equals, 123, 125, Space, Tab}

\* chars[c]&valueChar != 0
valueChar(c) == c >= 32 /\ c < 127 /\ c \notin {Quote, Semi, 92}

\* chars[c]&attrChar != 0
attrChar(c) == c >= 32 /\ c < 127 /\ c # Semi

isValidName(s) == Len(s) # 0 /\ \A i \in 1..Len(s) : nameChar(s[i])

isValidValue(s) == Len(s) # 0 /\ \A i \in 1..Len(s) : valueChar(s[i])

isValidAttr(s) == Len(s) # 0 /\ \A i \in 1..Len(s) : attrChar(s[i])

\* the loop of isDomainName from byte i on; st = [prev, ok, n]
RECURSIVE isDomainNameLoop(_, _, _)
isDomainNameLoop(s, i, st) ==
    IF i >= Len(s) THEN st.prev # Hyphen /\ st.n <= 63 /\ st.ok
    ELSE LET c == At(s, i)
         IN  IF (c >= 97 /\ c <= 122) \/ (c >= 65 /\ c <= 90)
             THEN isDomainNameLoop(s, i + 1, [prev |-> c, ok |-> TRUE, n |-> st.n + 1])
             ELSE IF IsDigit(c)
             THEN isDomainNameLoop(s, i + 1, [st EXCEPT !.prev = c, !.n = st.n + 1])
             ELSE IF c = Hyphen
             THEN IF st.prev = Dot THEN FALSE
                  ELSE isDomainNameLoop(s, i + 1, [st EXCEPT !.prev = c, !.n = st.n + 1])
             ELSE IF c = Dot
             THEN IF st.prev = Dot \/ st.prev = Hyphen THEN FALSE
                  ELSE IF st.n > 63 \/ st.n = 0 THEN FALSE
                  ELSE isDomainNameLoop(s, i + 1, [st EXCEPT !.prev = c, !.n = 0])
             ELSE FALSE

isDomainName(s) ==
    IF Len(s) = 0 \/ Len(s) > 255 THEN FALSE
    ELSE isDomainNameLoop(IF At(s, 0) = Dot THEN Slice(s, 1, Len(s)) ELSE s, 0,
                          [prev |-> Dot, ok |-> FALSE, n |-> 0])

isValidDomain(s) == isDomainName(s) \/ (isIP(s) /\ IndexByte(s, Colon) < 0)

\* shouldQuoteValue(s), for the non-empty values Marshal calls it with
shouldQuoteValue(s) ==
    LET first == At(s, 0)
        last_ == At(s, Len(s) - 1)
    IN  first = Space \/ first = Comma \/ last_ = Space \/ last_ = Comma

\* trim(s)
RECURSIVE trimLeft(_, _, _)
trimLeft(s, l, r) ==
    IF l <= r /\ (At(s, l) = Space \/ At(s, l) = Tab) THEN trimLeft(s, l + 1, r) ELSE l

RECURSIVE trimRight(_, _, _)
trimRight(s, l, r) ==
    IF r > l /\ (At(s, r) = Space \/ At(s, r) = Tab) THEN trimRight(s, l, r - 1) ELSE r

trim(s) ==
    LET cut(l) == Slice(s, l, trimRight(s, l, Len(s) - 1) + 1)
    IN  Only({cut(l) : l \in {trimLeft(s, 0, Len(s) - 1)}})

\* strconv.Itoa(n) for n >= 0
RECURSIVE Itoa(_)
Itoa(n) == IF n < 10 THEN <<48 + n>> ELSE Itoa(n \div 10) \o <<48 + (n % 10)>>

\* strconv.Atoi(s), for the numbers an int holds
Atoi(s) ==
    LET signed == Len(s) > 0 /\ (s[1] = 43 \/ s[1] = Hyphen)
        digits == IF signed THEN Slice(s, 1, Len(s)) ELSE s
    IN  IF Len(digits) = 0 \/ \E i \in 1..Len(digits) : ~IsDigit(digits[i])
        THEN [n |-> 0, err |-> "strconv.Atoi: invalid syntax"]
        ELSE [n |-> IF signed /\ s[1] = Hyphen THEN 0 - DecValue(digits)
                    ELSE DecValue(digits),
              err |-> Nil]

(***************************************************************************)
(* Times in header text.  A non-zero time t of the model is the instant t  *)
(* seconds after the Unix epoch, t < 60; the zero time.Time is 0 and has a *)
(* negative Unix().                                                        *)
(***************************************************************************)
TwoDigits(n) == <<48 + (n \div 10), 48 + (n % 10)>>

\* t.UTC().Format(time.RFC1123): "Thu, 01 Jan 1970 00:00:SS UTC"
FormatRFC1123(t) ==
    <<84, 104, 117, 44, 32, 48, 49, 32, 74, 97, 110, 32, 49, 57, 55, 48, 32,
      48, 48, 58, 48, 48, 58>> \o TwoDigits(t) \o <<32, 85, 84, 67>>

\* the layout "Mon, 02-Jan-2006 15:04:05 MST": "Thu, 01-Jan-1970 00:00:SS UTC"
FormatLegacy(t) ==
    <<84, 104, 117, 44, 32, 48, 49, 45, 74, 97, 110, 45, 49, 57, 55, 48, 32,
      48, 48, 58, 48, 48, 58>> \o TwoDigits(t) \o <<32, 85, 84, 67>>

\* time.Parse(time.RFC1123, val), then time.Parse of the legacy layout, for
\* the texts of the model: those of an instant of the first minute parse,
\* every other text of the model is no date at all
parseExpires(val) ==
    LET ts == {t \in 1..59 : val = FormatRFC1123(t) \/ val = FormatLegacy(t)}
    IN  IF ts = {} THEN [t |-> 0, err |-> errParseExpires]
        ELSE [t |-> CHOOSE t \in ts : TRUE, err |-> Nil]

\* Cookie.Marshal(true): the attributes in the order they are written
marshalUnparsed(c) ==
    LET RECURSIVE write(_)
        write(i) ==
            IF i > Len(c.Unparsed) THEN Empty
            ELSE <<Semi, Space>> \o c.Unparsed[i] \o write(i + 1)
    IN  write(1)

Marshal(c) ==
    LET fail(e) == [str |-> Empty, err |-> e]
        value == IF shouldQuoteValue(c.Value) THEN <<Quote>> \o c.Value \o <<Quote>>
                 ELSE c.Value
        domain == IF c.Domain # Empty
                  THEN <<Semi, Space, 68, 111, 109, 97, 105, 110, Equals>> \o c.Domain
                  ELSE Empty
        path == IF c.Path # Empty
                THEN <<Semi, Space, 80, 97, 116, 104, Equals>> \o c.Path
                ELSE Empty
        expires == IF c.Expires > 0
                   THEN <<Semi, Space, 69, 120, 112, 105, 114, 101, 115, Equals>>
                        \o FormatRFC1123(c.Expires)
                   ELSE Empty
        maxAge == IF c.MaxAge > 0
                  THEN <<Semi, Space, 77, 97, 120, Hyphen, 65, 103, 101, Equals>>
                       \o Itoa(c.MaxAge)
                  ELSE IF c.MaxAge < 0
                  THEN <<Semi, Space, 77, 97, 120, Hyphen, 65, 103, 101, Equals, 48>>
                  ELSE Empty
        httpOnly == IF c.HttpOnly
                    THEN <<Semi, Space, 72, 116, 116, 112, 79, 110, 108, 121>>
                    ELSE Empty
        secure == IF c.Secure THEN <<Semi, Space, 83, 101, 99, 117, 114, 101>>
                  ELSE Empty
    IN  IF ~isValidName(c.Name) THEN fail(errMarshalName)
        ELSE IF ~isValidValue(c.Value) THEN fail(errMarshalValue)
        ELSE IF c.Domain # Empty /\ ~isValidDomain(c.Domain) THEN fail(errMarshalDomain)
        ELSE IF c.Path # Empty /\ ~isValidAttr(c.Path) THEN fail(errMarshalPath)
        ELSE IF \E i \in 1..Len(c.Unparsed) : ~isValidAttr(c.Unparsed[i])
        THEN fail(errMarshalAttr)
        ELSE [str |-> c.Name \o <<Equals>> \o value \o domain \o path \o expires
                      \o maxAge \o httpOnly \o secure \o marshalUnparsed(c),
              err |-> Nil]

\* parseName(raw)
parseName(raw) ==
    IF ~isValidName(raw) THEN [str |-> Empty, ok |-> FALSE]
    ELSE [str |-> raw, ok |-> TRUE]

\* parseValue(raw)
parseValue(raw) ==
    LET inner == IF Len(raw) >= 2 /\ At(raw, 0) = Quote /\ At(raw, Len(raw) - 1) = Quote
                 THEN Slice(raw, 1, Len(raw) - 1)
                 ELSE raw
    IN  IF ~isValidValue(inner) THEN [str |-> Empty, ok |-> FALSE]
        ELSE [str |-> inner, ok |-> TRUE]

\* b | 0x20
Or20(b) == IF (b \div 32) % 2 = 1 THEN b ELSE b + 32

\* the comparisons of a case of parseAttr's switch: len(key) is that of word
\* and every byte of key, with 0x20 set, is the byte of word ("-" as it is)
keyIs(key, word) ==
    /\ Len(key) = Len(word)
    /\ \A i \in 1..Len(word) :
           IF word[i] = Hyphen THEN key[i] = Hyphen ELSE Or20(key[i]) = word[i]

kDomain   == <<100, 111, 109, 97, 105, 110>>
kExpires  == <<101, 120, 112, 105, 114, 101, 115>>
kHttpOnly == <<104, 116, 116, 112, 111, 110, 108, 121>>
kMaxAge   == <<109, 97, 120, 45, 97, 103, 101>>
kPath     == <<112, 97, 116, 104>>
kSecure   == <<115, 101, 99, 117, 114, 101>>

\* parseAttr(c, raw): the cookie afterwards and the error returned; the
\* errors parseAttr builds with fmt.Errorf and drops are no result
parseAttr(c, raw) ==
    LET eq == IndexByte(raw, Equals)
        key == IF eq >= 0 THEN Slice(raw, 0, eq) ELSE raw
        val == IF eq >= 0 THEN parseValue(Slice(raw, eq + 1, Len(raw))).str ELSE Empty
        done(d) == [c |-> d, err |-> Nil]
        fail(e) == [c |-> c, err |-> e]
    IN  IF key = Empty THEN fail(Panic)
        ELSE IF keyIs(key, kDomain)
        THEN IF val = Empty THEN fail(Panic)
             ELSE IF ~isValidDomain(Slice(val, 1, Len(val))) THEN fail(errParseDomain)
             ELSE done([c EXCEPT !.Domain = val])
        ELSE IF keyIs(key, kExpires)
        THEN LET e == parseExpires(val)
             IN  IF e.err # Nil THEN fail(errParseExpires)
                 ELSE done([c EXCEPT !.Expires = e.t])
        ELSE IF keyIs(key, kHttpOnly) THEN done([c EXCEPT !.HttpOnly = TRUE])
        ELSE IF keyIs(key, kMaxAge)
        THEN LET a == Atoi(val)
             IN  IF a.err # Nil \/ a.n < 0 THEN fail(errParseMaxAge)
                 ELSE done([c EXCEPT !.MaxAge = IF a.n = 0 THEN -1 ELSE a.n])
        ELSE IF keyIs(key, kPath) THEN done([c EXCEPT !.Path = val])
        ELSE IF keyIs(key, kSecure) THEN done([c EXCEPT !.Secure = TRUE])
        ELSE done([c EXCEPT !.Unparsed = Append(c.Unparsed, raw)])

\* the attribute loop of Parse: raw and s as the loop condition finds them
RECURSIVE parseAttrs(_, _, _)
parseAttrs(c, raw, s) ==
    IF ~(0 <= s /\ s < Len(raw)) THEN [c |-> c, err |-> Nil]
    ELSE LET rest == Slice(raw, s + 1, Len(raw))
             next(s2) ==
                 LET part == IF s2 < 0 THEN trim(rest) ELSE trim(Slice(rest, 0, s2))
                     step(r) == IF r.err # Nil THEN [c |-> noCookie, err |-> r.err]
                                ELSE parseAttrs(r.c, rest, s2)
                 IN  Only({step(r) : r \in {parseAttr(c, part)}})
         IN  Only({next(s2) : s2 \in {IndexByte(rest, Semi)}})

\* Parse(raw): the cookie (noCookie for the nil pointer) and the error
Parse(raw) ==
    LET semi == IndexByte(raw, Semi)
        s == IF semi < 0 THEN Len(raw) ELSE semi
        part == trim(Slice(raw, 0, s))
        eq == IndexByte(part, Equals)
        name == parseName(Slice(part, 0, eq))
        value == parseValue(Slice(part, eq + 1, Len(part)))
        fail(e) == [c |-> noCookie, err |-> e]
    IN  IF eq < 0 THEN fail(errParseMissing)
        ELSE IF ~name.ok THEN fail(errParseName)
        ELSE IF ~value.ok THEN fail(errParseValue)
        ELSE parseAttrs([noCookie EXCEPT !.Name = name.str, !.Value = value.str], raw, s)

(***************************************************************************)
(* The calls as actions.  `last` records the call that led to the current  *)
(* state: its arguments (the host after canonicalisation), the error it    *)
(* returned and, for Cookies, the entries a cookie was returned for (the   *)
(* returned slice holds one {Name, Value} per such entry, in the order the *)
(* map was iterated in).  owner and kept are history variables.            *)
(***************************************************************************)
noCall ==
    [op |-> "NewJar", err |-> Nil, scheme |-> "", host |-> Empty,
     path |-> Empty, now |-> 0, domain |-> Empty, remove |-> FALSE,
     entry |-> zeroEntry, from |-> {}, maxAge |-> 0, expires |-> 0,
     raw |-> Empty, cookie |-> noCookie, parsed |-> noCookie]

Restrict(f, S) == [x \in (DOMAIN f) \cap S |-> f[x]]

\* what `last` keeps of the entry of a SetCookie call: all of a stored
\* entry, the scope (Domain, Path, Name) of one the call asked to remove
seen(e, rm) ==
    IF rm THEN [zeroEntry EXCEPT !.Domain = e.Domain, !.Path = e.Path,
                                 !.Name = e.Name, !.HostOnly = e.HostOnly]
    ELSE e

\* func (j *Jar) SetCookie(scheme, host, path string, c *Cookie, now time.Time) error
SetCookie(scheme, host, path, c, now) ==
    \E r \in {setCookieCall(ent, psl, scheme, host, path, c, now)} :
    \E slot \in {<<domainRoot(r.host, psl), entryKey(r.entry)>>} :
        /\ r.err = Nil /\ ~r.remove => nset < MaxSets
        /\ ent' = r.ent
        /\ last' = [noCall EXCEPT !.op = "SetCookie", !.err = r.err,
                                  !.host = r.host, !.domain = c.Domain,
                                  !.now = IF r.err = Nil THEN now ELSE 0,
                                  !.remove = r.remove,
                                  !.entry = seen(r.entry, r.remove),
                                  !.maxAge = IF r.err = Nil THEN c.MaxAge ELSE 0,
                                  !.expires = IF r.err = Nil THEN c.Expires ELSE 0]
        /\ nset' = IF r.err = Nil /\ ~r.remove THEN nset + 1 ELSE nset
        /\ kept' = IF r.err # Nil THEN kept
                   ELSE IF r.remove THEN Restrict(kept, (DOMAIN kept) \ {slot})
                   ELSE MapPut(kept, slot, r.entry)
        /\ evicted' = IF r.err # Nil THEN evicted ELSE evicted \ {slot}
        /\ owner' = IF r.err = Nil /\ ~r.remove
                    THEN MapPut(Restrict(owner, Slots(r.ent)), slot, r.host)
                    ELSE Restrict(owner, Slots(r.ent))
        /\ UNCHANGED <<psl, stepVars>>

\* func (j *Jar) Cookies(scheme, host, path string, now time.Time) ([]*Cookie, error)
Cookies(scheme, host, path, now) ==
    \E r \in {cookiesCall(ent, psl, scheme, host, path, now)} :
        /\ ent' = r.ent
        /\ last' = IF r.err # Nil
                   THEN [noCall EXCEPT !.op = "Cookies", !.err = r.err,
                                       !.now = now]
                   ELSE [noCall EXCEPT !.op = "Cookies", !.scheme = scheme,
                                       !.host = r.host, !.path = path,
                                       !.now = now, !.from = r.from]
        /\ owner' = Restrict(owner, Slots(r.ent))
        /\ evicted' = IF r.err # Nil THEN evicted
                      ELSE evicted \cup
                           {sl \in DOMAIN kept :
                               /\ sl[1] = domainRoot(r.host, psl)
                               /\ kept[sl].Expires # 0
                               /\ kept[sl].Expires <= now}
        /\ UNCHANGED <<psl, kept, nset, stepVars>>

\* the cookies the last Cookies call returned
Returned == {[Name |-> e.Name, Value |-> e.Value] : e \in last.from}

(***************************************************************************)
(* Strings of the model.                                                   *)
(***************************************************************************)
sAC    == <<97, 46, 99>>                        \* "a.c"
sWAC   == <<119, 46, 97, 46, 99>>               \* "w.a.c"
sNAC   == <<110, 97, 46, 99>>                   \* "na.c"
sC     == <<99>>                                \* "c"
sIP    == <<49, 46, 50, 46, 51, 46, 52>>        \* "1.2.3.4"
sWACp  == <<87, 46, 97, 46, 99, 58, 56>>        \* "W.a.c:8"
sBadBr == <<91, 97, 46, 99, 58, 56>>            \* "[a.c:8"
sColon == <<58, 56>>                            \* ":8"
sDotAC == <<46, 65, 46, 99>>                    \* ".A.c"
sDDC   == <<46, 46, 99>>                        \* "..c"
sRoot  == <<47>>                                \* "/"
sF     == <<47, 102>>                           \* "/f"
sFB    == <<47, 102, 47, 98>>                   \* "/f/b"
sFs    == <<47, 102, 47>>                       \* "/f/"
sFb    == <<47, 102, 98>>                       \* "/fb"
sNoSl  == <<102>>                               \* "f"
sN     == <<110>>                               \* "n"
sV     == <<118>>                               \* "v"

Times == 1..MaxTime

\* a cookie as Parse leaves it when no attribute is given
Cookie0 ==
    [Name |-> sN, Value |-> sV, Domain |-> Empty, Path |-> Empty,
     Expires |-> 0, Secure |-> FALSE, HttpOnly |-> FALSE, MaxAge |-> 0,
     Unparsed |-> Empty]

\* NewJar(psl)
InitJar(psls) ==
    /\ psl \in psls
    /\ ent = EmptyMap
    /\ last = noCall
    /\ owner = EmptyMap
    /\ kept = EmptyMap
    /\ evicted = {}
    /\ nset = 0
    /\ NoCallers

\* the calls of a run: every call of sets, or one of gets
NextJar(sets, gets) ==
    \/ \E a \in sets : SetCookie(a.scheme, a.host, a.path, a.c, a.now)
    \/ \E a \in gets : Cookies(a.scheme, a.host, a.path, a.now)

(***************************************************************************)
(* Spec: the life of entries.  Two hosts of one registrable domain set     *)
(* host-only and domain cookies with every kind of lifetime; the jar has a *)
(* public suffix list.                                                     *)
(***************************************************************************)
LifeCookies ==
    {[Cookie0 EXCEPT !.Domain = d, !.MaxAge = m] :
        d \in {Empty, sDotAC}, m \in {-1, 0, 1}}
    \cup {[Cookie0 EXCEPT !.Domain = d, !.Expires = MaxTime] : d \in {Empty, sDotAC}}

LifeSets ==
    [scheme : {"https"}, host : {sAC, sWACp}, path : {sRoot},
     c : LifeCookies, now : Times]
    \cup [scheme : {"ftp"}, host : {sAC}, path : {sRoot}, c : {Cookie0}, now : {1}]
    \cup [scheme : {"http"}, host : {sBadBr}, path : {sRoot}, c : {Cookie0}, now : {1}]
    \cup [scheme : {"http"}, host : {sAC, sIP}, path : {sRoot},
          c : {[Cookie0 EXCEPT !.Domain = d] : d \in {sC, sDDC}}, now : {1}]

LifeGets ==
    [scheme : {"http"}, host : {sAC, sWACp}, path : {sRoot}, now : Times]
    \cup [scheme : {"ftp"}, host : {sAC}, path : {sRoot}, now : Times]
    \cup [scheme : {"http"}, host : {sBadBr}, path : {sRoot}, now : {1}]

Init == InitJar({PslList})

Next == NextJar(LifeSets, LifeGets)

Spec == Init /\ [][Next]_vars

(***************************************************************************)
(* SpecScope: the scope of entries.  Hosts of several registrable domains, *)
(* a public suffix and an IP address set cookies with and without a domain *)
(* attribute, in a jar with and without a public suffix list.              *)
(***************************************************************************)
ScopeHosts == {sAC, sWACp, sNAC, sC, sIP}

ScopeCookies ==
    {[Cookie0 EXCEPT !.Domain = d] : d \in {Empty, sDotAC, sC, sDDC}}

ScopeSets ==
    [scheme : {"http"}, host : ScopeHosts, path : {sRoot},
     c : ScopeCookies, now : {1}]
    \cup [scheme : {"ftp"}, host : {sAC}, path : {sRoot}, c : {Cookie0}, now : {1}]
    \cup [scheme : {"http"}, host : {sBadBr, sColon}, path : {sRoot},
          c : {Cookie0}, now : {1}]

ScopeGets ==
    [scheme : {"http"}, host : ScopeHosts, path : {sRoot}, now : Times]
    \cup [scheme : {"ftp"}, host : {sAC}, path : {sRoot}, now : {1}]
    \cup [scheme : {"http"}, host : {sBadBr, sColon}, path : {sRoot}, now : {1}]

InitScope == InitJar({Nil, PslList})

NextScope == NextJar(ScopeSets, ScopeGets)

SpecScope == InitScope /\ [][NextScope]_vars

(***************************************************************************)
(* SpecSend: which requests an entry is sent to.  A host sets cookies of    *)
(* every domain, path, Secure flag and lifetime, the public suffix above   *)
(* it a plain one; requests come from the host, its parent and the suffix. *)
(***************************************************************************)
SendCookies ==
    {[Cookie0 EXCEPT !.Domain = d, !.Path = cp, !.Secure = sec, !.MaxAge = m] :
        d \in {Empty, sDotAC}, cp \in {Empty, sF}, sec \in BOOLEAN, m \in {0, 1}}

SendSets ==
    [scheme : {"http"}, host : {sWACp}, path : {sRoot},
     c : SendCookies, now : {1}]
    \cup [scheme : {"http"}, host : {sC}, path : {sRoot}, c : {Cookie0}, now : {1}]
    \cup [scheme : {"ftp"}, host : {sC}, path : {sRoot}, c : {Cookie0}, now : {1}]

SendGets ==
    [scheme : {"http", "https"}, host : {sAC, sWACp, sC}, path : {sRoot, sFB},
     now : Times]
    \cup [scheme : {"ftp"}, host : {sC}, path : {sRoot}, now : {1}]

InitSend == InitJar({PslList})

NextSend == NextJar(SendSets, SendGets)

SpecSend == InitSend /\ [][NextSend]_vars

(***************************************************************************)
(* SpecAge: the lifetime of an entry.  One host sets a cookie with every   *)
(* combination of a Max-Age (negative, zero, positive) and an Expires      *)
(* attribute (none, any time of the run) at every time of the run.         *)
(***************************************************************************)
AgeCookies ==
    {[Cookie0 EXCEPT !.Expires = x, !.MaxAge = m] :
        x \in {0} \cup Times, m \in {-1, 0, 1, 2}}

AgeSets ==
    [scheme : {"http"}, host : {sAC}, path : {sRoot}, c : AgeCookies, now : Times]
    \cup [scheme : {"ftp"}, host : {sAC}, path : {sRoot}, c : {Cookie0}, now : {1}]

AgeGets ==
    [scheme : {"http"}, host : {sAC}, path : {sRoot}, now : Times]
    \cup [scheme : {"ftp"}, host : {sAC}, path : {sRoot}, now : {1}]

InitAge == InitJar({PslList})

NextAge == NextJar(AgeSets, AgeGets)

SpecAge == InitAge /\ [][NextAge]_vars

(***************************************************************************)
(* SpecPath: the paths an entry is sent to.  One host sets session cookies *)
(* with no Path, a Path without a leading slash, "/f" and "/f/"; requests  *)
(* come for the empty path, "/", "/f", "/f/", "/f/b" and "/fb".            *)
(***************************************************************************)
PathCookies == {[Cookie0 EXCEPT !.Path = cp] : cp \in {Empty, sNoSl, sF, sFs}}

PathSets ==
    [scheme : {"http"}, host : {sAC}, path : {sRoot}, c : PathCookies, now : {1}]
    \cup [scheme : {"ftp"}, host : {sAC}, path : {sRoot}, c : {Cookie0}, now : {1}]

PathGets ==
    [scheme : {"http"}, host : {sAC},
     path : {Empty, sRoot, sF, sFs, sFB, sFb}, now : Times]
    \cup [scheme : {"ftp"}, host : {sAC}, path : {sRoot}, now : {1}]

InitPath == InitJar({PslList})

NextPath == NextJar(PathSets, PathGets)

SpecPath == InitPath /\ [][NextPath]_vars

(***************************************************************************)
(* SpecRoot: the bucket an entry goes to.  Hosts of one, two and three     *)
(* labels and an IP address set a host-only cookie in a jar built with no  *)
(* list, with the list, and with the implementation that answers "x".      *)
(***************************************************************************)
sBAC   == <<98, 46, 97, 46, 99>>                \* "b.a.c"

RootHosts == {sC, sAC, sBAC, sIP}

RootSets ==
    [scheme : {"http"}, host : RootHosts, path : {sRoot}, c : {Cookie0}, now : {1}]
    \cup [scheme : {"ftp"}, host : {sAC}, path : {sRoot}, c : {Cookie0}, now : {1}]

RootGets ==
    [scheme : {"http"}, host : RootHosts, path : {sRoot}, now : Times]
    \cup [scheme : {"ftp"}, host : {sAC}, path : {sRoot}, now : {1}]

InitRoot == InitJar({Nil, PslList, PslOdd})

NextRoot == NextJar(RootSets, RootGets)

SpecRoot == InitRoot /\ [][NextRoot]_vars

(***************************************************************************)
(* SpecHost: canonicalHost as a function.  It is applied to every host of  *)
(* up to MaxHost code points out of a letter in both cases, a non-ASCII    *)
(* letter in both cases, a digit, the dot, the colon and the brackets.     *)
(***************************************************************************)
HostRunes == {97, 65, 252, 220, 56, Dot, Colon, LBrack, RBrack}

Hosts == UNION {[1..n -> HostRunes] : n \in 0..MaxHost}

\* the host before the call
InitHost ==
    /\ psl = Nil
    /\ ent = EmptyMap
    /\ last \in {[noCall EXCEPT !.op = "host", !.raw = h] : h \in Hosts}
    /\ owner = EmptyMap
    /\ kept = EmptyMap
    /\ evicted = {}
    /\ nset = 0
    /\ NoCallers

\* host, err := canonicalHost(host)
CanonicalHost ==
    /\ last.op = "host"
    /\ \E r \in {canonicalHost(last.raw)} :
           last' = [last EXCEPT !.op = "canonicalHost", !.host = r.host,
                                !.err = r.err]
    /\ UNCHANGED <<psl, ent, owner, kept, evicted, nset, stepVars>>

NextHost == CanonicalHost

SpecHost == InitHost /\ [][NextHost]_vars

(***************************************************************************)
(* SpecPuny: encode as a function.  It is applied to every label of up to  *)
(* MaxLabel code points out of "-", two ASCII letters, two neighbouring    *)
(* Latin-1 letters and two CJK ideographs, and to the labels of the tests. *)
(***************************************************************************)
LabelRunes == {45, 97, 98, 252, 253, 19990, 30028}

sBucher == <<98, 252, 99, 104, 101, 114>>            \* "bücher"
sBooks  == <<98, 111, 111, 107, 115>>                \* "books"
sHello  == <<72, 101, 108, 108, 111, 19990, 30028>>  \* "Hello世界"

Labels ==
    UNION {[1..n -> LabelRunes] : n \in 0..MaxLabel} \cup {sBucher, sBooks, sHello}

\* the label before the call
InitPuny ==
    /\ psl = Nil
    /\ ent = EmptyMap
    /\ last \in {[noCall EXCEPT !.op = "label", !.raw = l] : l \in Labels}
    /\ owner = EmptyMap
    /\ kept = EmptyMap
    /\ evicted = {}
    /\ nset = 0
    /\ NoCallers

\* labels[i], err = encode(labels[i], buf)
Encode ==
    /\ last.op = "label"
    /\ \E r \in {encode(last.raw)} :
           last' = [last EXCEPT !.op = "encode", !.host = r.str, !.err = r.err]
    /\ UNCHANGED <<psl, ent, owner, kept, evicted, nset, stepVars>>

NextPuny == Encode

SpecPuny == InitPuny /\ [][NextPuny]_vars

(***************************************************************************)
(* SpecCodec: Marshal and Parse as functions.  A cookie is drawn, Marshal  *)
(* writes it as header text and Parse reads that text back.  The cookies   *)
(* have values with spaces, commas and "=" at either end, every MaxAge     *)
(* sign, both flags and up to MaxAttrs unparsed attributes: plain ones,    *)
(* ones with blanks around them, with an empty key, with the spelling of   *)
(* an attribute Parse knows, and ones Marshal refuses.  A few cookies have *)
(* a Domain, a Path, an Expires or a name Marshal refuses.                 *)
(***************************************************************************)
CodecValues ==
    {sV, <<Space, 118>>, <<118, Comma>>, <<Space>>, <<118, Space, 118>>,
     <<Equals, 118, Equals>>}

CodecAttrs ==
    {<<98>>,                              \* "b"
     <<107, Equals, 49>>,                 \* "k=1"
     <<Space, 98>>,                       \* " b"
     <<Equals, 98>>,                      \* "=b"
     <<83, 101, 99, 117, 114, 101>>,      \* "Secure"
     <<112, 97, 116, 104, Equals, Slash>>,\* "path=/"
     <<68, 111, 109, 97, 105, 110>>,      \* "Domain"
     <<109, 97, 120, Hyphen, 97, 103, 101, Equals, 53>>, \* "max-age=5"
     Empty,                               \* ""
     <<97, Semi, 98>>}                    \* "a;b"

CodecAges == {-2, -1, 0, 1, 12}

CodecCookies ==
    {[noCookie EXCEPT !.Name = sN, !.Value = v, !.MaxAge = m, !.Secure = s,
                      !.HttpOnly = h, !.Unparsed = u] :
        v \in CodecValues, m \in CodecAges, s \in BOOLEAN, h \in BOOLEAN,
        u \in UNION {[1..n -> CodecAttrs] : n \in 0..MaxAttrs}}
    \cup {[noCookie EXCEPT !.Name = sN, !.Value = sV, !.Domain = d, !.Path = p,
                           !.Expires = e] :
             d \in {Empty, sDotAC, sIP, sDDC}, p \in {Empty, sF, <<Semi>>},
             e \in {0, 1, 12}}
    \cup {[noCookie EXCEPT !.Name = n, !.Value = v] :
             n \in {Empty, <<110, Space>>}, v \in {sV, Empty, <<Quote>>}}

\* the cookie before the calls
InitCodec ==
    /\ psl = Nil
    /\ ent = EmptyMap
    /\ last \in {[noCall EXCEPT !.op = "cookie", !.cookie = c] : c \in CodecCookies}
    /\ owner = EmptyMap
    /\ kept = EmptyMap
    /\ evicted = {}
    /\ nset = 0
    /\ NoCallers

\* raw, err := c.Marshal(true)
MarshalCookie ==
    /\ last.op = "cookie"
    /\ \E r \in {Marshal(last.cookie)} :
           last' = [last EXCEPT !.op = "Marshal", !.raw = r.str, !.err = r.err]
    /\ UNCHANGED <<psl, ent, owner, kept, evicted, nset, stepVars>>

\* c, err := Parse(raw)
ParseText ==
    /\ last.op = "Marshal"
    /\ last.err = Nil
    /\ \E r \in {Parse(last.raw)} :
           last' = [last EXCEPT !.op = "Parse", !.parsed = r.c, !.err = r.err]
    /\ UNCHANGED <<psl, ent, owner, kept, evicted, nset, stepVars>>

NextCodec == MarshalCookie \/ ParseText

SpecCodec == InitCodec /\ [][NextCodec]_vars

(***************************************************************************)
(* SpecRace: the statements of concurrent calls.  Jar has no lock of its   *)
(* own.  Two callers share a jar; either they share a mutex they hold for  *)
(* the length of a call, or they use none (mutex = "absent") and the       *)
(* statements of their calls interleave.  A step is one statement of       *)
(* Jar.set, Jar.remove or of the part of Cookies that reads and writes     *)
(* j.ent; what SetCookie and Cookies compute before they touch j.ent reads *)
(* only their arguments and j.psl and is part of the first step.  Go maps  *)
(* are references: dir is j.ent and heap holds the buckets, so a caller    *)
(* can hold a bucket that j.ent has dropped.  Two statements that access   *)
(* one map, one of them writing, are a data race when no lock orders them: *)
(* the runtime may end the program with "fatal error: concurrent map       *)
(* writes" (the step Fatal) or run them one after the other.               *)
(***************************************************************************)
Callers == {"c1", "c2"}

errFatal == "fatal error: concurrent map access"

\* the nil map; the bucket objects are 1, 2, ...
NoBucket == 0

\* a caller outside any call
idle ==
    [pc |-> "idle", scheme |-> "", host |-> Empty, path |-> Empty,
     c |-> noCookie, now |-> 0, chost |-> Empty, err |-> Nil,
     entry |-> zeroEntry, remove |-> FALSE, root |-> Empty, bucket |-> NoBucket,
     from |-> {}]

\* j.ent by value
View(d, h) == [r \in DOMAIN d |-> h[d[r]]]

\* the callers inside a SetCookie call that stores its cookie
Storing == {q \in Callers : procs[q].pc \in {"set.fetch", "set.make", "set.insert"}
                            \/ (procs[q].pc = "SetCookie.return"
                                /\ procs[q].err = Nil /\ ~procs[q].remove)}

\* mu.Lock() of the callers that share a mutex
Lock(p) ==
    /\ mutex \in {"absent", "free"}
    /\ mutex' = IF mutex = "absent" THEN "absent" ELSE p

\* mu.Unlock()
Unlock(p) == mutex' = IF mutex = "absent" THEN "absent" ELSE "free"

\* a statement of caller p that leaves the jar as it is
Local(p, next) ==
    /\ procs' = [procs EXCEPT ![p] = next]
    /\ UNCHANGED <<psl, ent, last, owner, kept, evicted, nset, mutex, dir, heap>>

\* a statement of caller p that leaves j.ent as d and the buckets as h
Write(p, next, d, h) ==
    /\ procs' = [procs EXCEPT ![p] = next]
    /\ dir' = d
    /\ heap' = h
    /\ ent' = View(d, h)
    /\ UNCHANGED <<psl, last, owner, kept, evicted, nset, mutex>>

\* SetCookie up to the call of j.set or j.remove (jar.go:78-94)
SetCookieBegin(p, scheme, host, path, c, now) ==
    /\ procs[p].pc = "idle"
    /\ Lock(p)
    /\ \E r \in {setCookieCall(EmptyMap, psl, scheme, host, path, c, now)} :
           /\ r.err = Nil /\ ~r.remove => nset + Cardinality(Storing) < MaxSets
           /\ procs' = [procs EXCEPT ![p] =
                  [idle EXCEPT !.pc = IF r.err # Nil THEN "SetCookie.return"
                                      ELSE IF r.remove THEN "remove.fetch"
                                      ELSE "set.fetch",
                               !.scheme = scheme, !.host = host, !.path = path,
                               !.c = c, !.now = now, !.chost = r.host,
                               !.err = r.err, !.entry = r.entry,
                               !.remove = r.remove, !.root = r.entry.Root]]
    /\ UNCHANGED <<psl, ent, last, owner, kept, evicted, nset, dir, heap>>

\* set: bucket, ok := j.ent[entry.Root]
SetFetch(p) ==
    /\ procs[p].pc = "set.fetch"
    /\ LET ok == procs[p].root \in DOMAIN dir
       IN  Local(p, [procs[p] EXCEPT
                        !.pc = IF ok THEN "set.insert" ELSE "set.make",
                        !.bucket = IF ok THEN dir[procs[p].root] ELSE NoBucket])

\* set: bucket = make(map[string]*jarEntry); j.ent[entry.Root] = bucket
SetMake(p) ==
    /\ procs[p].pc = "set.make"
    /\ \E b \in {Cardinality(DOMAIN heap) + 1} :
           Write(p, [procs[p] EXCEPT !.pc = "set.insert", !.bucket = b],
                 MapPut(dir, procs[p].root, b), MapPut(heap, b, EmptyMap))

\* set: bucket[entry.Key] = entry
SetInsert(p) ==
    /\ procs[p].pc = "set.insert"
    /\ Write(p, [procs[p] EXCEPT !.pc = "SetCookie.return"], dir,
             [heap EXCEPT ![procs[p].bucket] =
                 MapPut(@, procs[p].entry.Key, procs[p].entry)])

\* remove: bucket, ok := j.ent[entry.Root]; if !ok { return }
RemoveFetch(p) ==
    /\ procs[p].pc = "remove.fetch"
    /\ LET ok == procs[p].root \in DOMAIN dir
       IN  Local(p, [procs[p] EXCEPT
                        !.pc = IF ok THEN "remove.delete" ELSE "SetCookie.return",
                        !.bucket = IF ok THEN dir[procs[p].root] ELSE NoBucket])

\* remove: delete(bucket, entry.Key)
RemoveDelete(p) ==
    /\ procs[p].pc = "remove.delete"
    /\ Write(p, [procs[p] EXCEPT !.pc = "remove.drop"], dir,
             [heap EXCEPT ![procs[p].bucket] = MapDelete(@, procs[p].entry.Key)])

\* delete(j.ent, root) without the test of len(bucket)
dropEmpty_Always(d, bucket, root) == MapDelete(d, root)

\* if len(bucket) == 0 { delete(j.ent, root) }: j.ent afterwards
dropEmpty(d, bucket, root) ==
    IF DOMAIN bucket = {} THEN MapDelete(d, root) ELSE d

\* remove: if len(bucket) == 0 { delete(j.ent, entry.Root) }
RemoveDrop(p) ==
    /\ procs[p].pc = "remove.drop"
    /\ Write(p, [procs[p] EXCEPT !.pc = "SetCookie.return"],
             dropEmpty(dir, heap[procs[p].bucket], procs[p].root), heap)

\* SetCookie returns
SetCookieReturn(p) ==
    /\ procs[p].pc = "SetCookie.return"
    /\ Unlock(p)
    /\ \E r \in {procs[p]} :
       \E slot \in {<<domainRoot(r.chost, psl), entryKey(r.entry)>>} :
           /\ last' = [noCall EXCEPT !.op = "SetCookie", !.err = r.err,
                                     !.host = r.chost, !.domain = r.c.Domain,
                                     !.now = IF r.err = Nil THEN r.now ELSE 0,
                                     !.remove = r.remove,
                                     !.entry = seen(r.entry, r.remove),
                                     !.maxAge = IF r.err = Nil THEN r.c.MaxAge ELSE 0,
                                     !.expires = IF r.err = Nil THEN r.c.Expires ELSE 0]
           /\ nset' = IF r.err = Nil /\ ~r.remove THEN nset + 1 ELSE nset
           /\ kept' = IF r.err # Nil THEN kept
                      ELSE IF r.remove THEN Restrict(kept, (DOMAIN kept) \ {slot})
                      ELSE MapPut(kept, slot, r.entry)
           /\ evicted' = IF r.err # Nil THEN evicted ELSE evicted \ {slot}
           /\ owner' = IF r.err = Nil /\ ~r.remove
                       THEN MapPut(Restrict(owner, Slots(ent)), slot, r.chost)
                       ELSE Restrict(owner, Slots(ent))
    /\ procs' = [procs EXCEPT ![p] = idle]
    /\ UNCHANGED <<psl, ent, dir, heap>>

\* Cookies up to root := domainRoot(host, j.psl) (jar.go:39-49)
CookiesBegin(p, scheme, host, path, now) ==
    /\ procs[p].pc = "idle"
    /\ Lock(p)
    /\ \E r \in {cookiesCall(EmptyMap, psl, scheme, host, path, now)} :
           procs' = [procs EXCEPT ![p] =
               [idle EXCEPT !.pc = IF r.err # Nil THEN "Cookies.return"
                                   ELSE "Cookies.fetch",
                            !.scheme = scheme, !.host = host, !.path = path,
                            !.now = now, !.chost = r.host, !.err = r.err,
                            !.root = IF r.err # Nil THEN Empty
                                     ELSE domainRoot(r.host, psl)]]
    /\ UNCHANGED <<psl, ent, last, owner, kept, evicted, nset, dir, heap>>

\* Cookies: bucket := j.ent[root]
CookiesFetch(p) ==
    /\ procs[p].pc = "Cookies.fetch"
    /\ Local(p, [procs[p] EXCEPT
                    !.pc = "Cookies.loop",
                    !.bucket = IF procs[p].root \in DOMAIN dir
                               THEN dir[procs[p].root] ELSE NoBucket])

\* Cookies: for _, entry := range bucket { ... }
CookiesLoop(p) ==
    /\ procs[p].pc = "Cookies.loop"
    /\ \E r \in {procs[p]} :
           IF r.bucket = NoBucket THEN Local(p, [r EXCEPT !.pc = "Cookies.drop"])
           ELSE Write(p, [r EXCEPT !.pc = "Cookies.drop",
                                   !.from = collect(heap[r.bucket], r.scheme,
                                                    r.chost, r.path, r.now)],
                      dir, [heap EXCEPT ![r.bucket] = evict(@, r.now)])

\* Cookies: if len(bucket) == 0 { delete(j.ent, root) }
CookiesDrop(p) ==
    /\ procs[p].pc = "Cookies.drop"
    /\ \E r \in {procs[p]} :
           Write(p, [r EXCEPT !.pc = "Cookies.return"],
                 dropEmpty(dir, IF r.bucket = NoBucket THEN EmptyMap ELSE heap[r.bucket],
                           r.root),
                 heap)

\* Cookies returns
CookiesReturn(p) ==
    /\ procs[p].pc = "Cookies.return"
    /\ Unlock(p)
    /\ \E r \in {procs[p]} :
           /\ last' = IF r.err # Nil
                      THEN [noCall EXCEPT !.op = "Cookies", !.err = r.err,
                                          !.now = r.now]
                      ELSE [noCall EXCEPT !.op = "Cookies", !.scheme = r.scheme,
                                          !.host = r.chost, !.path = r.path,
                                          !.now = r.now, !.from = r.from]
           /\ evicted' = IF r.err # Nil THEN evicted
                         ELSE evicted \cup
                              {sl \in DOMAIN kept :
                                  /\ sl[1] = r.root
                                  /\ kept[sl].Expires # 0
                                  /\ kept[sl].Expires <= r.now}
    /\ owner' = Restrict(owner, Slots(ent))
    /\ procs' = [procs EXCEPT ![p] = idle]
    /\ UNCHANGED <<psl, ent, kept, nset, dir, heap>>

\* the maps a statement accesses: j.ent and the bucket objects
EntMap == <<"ent", NoBucket>>
BucketMap(b) == <<"bucket", b>>

\* the maps the next statement of caller p reads ("r") and writes ("w")
Access(p) ==
    LET r == procs[p]
        len == IF r.bucket = NoBucket THEN {} ELSE {<<BucketMap(r.bucket), "r">>}
        drop == IF r.bucket = NoBucket \/ DOMAIN heap[r.bucket] = {}
                THEN {<<EntMap, "w">>} ELSE {}
    IN  CASE r.pc \in {"set.fetch", "remove.fetch", "Cookies.fetch"} -> {<<EntMap, "r">>}
          [] r.pc = "set.make" -> {<<EntMap, "w">>}
          [] r.pc \in {"set.insert", "remove.delete"} -> {<<BucketMap(r.bucket), "w">>}
          [] r.pc \in {"remove.drop", "Cookies.drop"} -> len \cup drop
          [] r.pc = "Cookies.loop" ->
                 IF r.bucket = NoBucket THEN {}
                 ELSE {<<BucketMap(r.bucket), "r">>} \cup
                      {<<BucketMap(r.bucket), "w">> : k \in {x \in DOMAIN heap[r.bucket] :
                                                     expired(heap[r.bucket][x], r.now)}}
          [] OTHER -> {}

\* the next statements of p and q access one map and one of them writes it
Races(p, q) ==
    \E a \in Access(p), b \in Access(q) : a[1] = b[1] /\ "w" \in {a[2], b[2]}

\* the runtime finds two callers in one map and throws
Fatal ==
    /\ \E p, q \in Callers : p # q /\ Races(p, q)
    /\ procs' = [p \in Callers |-> [procs[p] EXCEPT !.pc = "fatal"]]
    /\ last' = [noCall EXCEPT !.op = "fatal", !.err = errFatal]
    /\ UNCHANGED <<psl, ent, owner, kept, evicted, nset, mutex, dir, heap>>

RaceCookies == {Cookie0, [Cookie0 EXCEPT !.MaxAge = 1], [Cookie0 EXCEPT !.MaxAge = -1]}

RaceSets ==
    [scheme : {"http"}, host : {sAC}, path : {sRoot}, c : RaceCookies, now : {1}]
    \cup [scheme : {"ftp"}, host : {sAC}, path : {sRoot}, c : {Cookie0}, now : {1}]

RaceGets == [scheme : {"http"}, host : {sAC}, path : {sRoot}, now : {MaxTime}]

\* NewJar(psl), and the callers with or without a mutex
InitRace ==
    /\ psl \in {Nil, PslList}
    /\ ent = EmptyMap
    /\ last = noCall
    /\ owner = EmptyMap
    /\ kept = EmptyMap
    /\ evicted = {}
    /\ nset = 0
    /\ mutex \in {"absent", "free"}
    /\ dir = EmptyMap
    /\ heap = EmptyMap
    /\ procs = [p \in Callers |-> idle]

NextRace ==
    \/ \E p \in Callers :
          \/ \E a \in RaceSets : SetCookieBegin(p, a.scheme, a.host, a.path, a.c, a.now)
          \/ SetFetch(p)
          \/ SetMake(p)
          \/ SetInsert(p)
          \/ RemoveFetch(p)
          \/ RemoveDelete(p)
          \/ RemoveDrop(p)
          \/ SetCookieReturn(p)
          \/ \E a \in RaceGets : CookiesBegin(p, a.scheme, a.host, a.path, a.now)
          \/ CookiesFetch(p)
          \/ CookiesLoop(p)
          \/ CookiesDrop(p)
          \/ CookiesReturn(p)
    \/ Fatal

SpecRace == InitRace /\ [][NextRace]_vars

(***************************************************************************)
(* SpecWide: the lifetime newEntry computes from Max-Age at the width of   *)
(* the machine.  c.MaxAge is an int of 64 bits, time.Duration an int64 of  *)
(* nanoseconds and time.Second is 1000000000; the product wraps.  A 64-bit *)
(* integer is its eight bytes, lowest first, in two's complement.  The     *)
(* values of MaxAge are a byte at every position, the largest value whose  *)
(* product fits, the next one, the largest int and a few of the values of  *)
(* the other specifications.                                               *)
(***************************************************************************)
WordBytes == 8
ByteBase == 256

\* an int64 from its lowest bytes
Int64(low) == [i \in 1..WordBytes |-> IF i <= Len(low) THEN low[i] ELSE 0]

\* time.Second as a time.Duration: 0x3B9ACA00
SecondNs == Int64(<<0, 202, 154, 59>>)

IsZero64(a) == \A i \in 1..WordBytes : a[i] = 0
IsNeg64(a) == a[WordBytes] >= ByteBase \div 2
IsPos64(a) == ~IsNeg64(a) /\ ~IsZero64(a)

\* the sum of the byte products of a and b that fall on byte i
RECURSIVE Column(_, _, _, _)
Column(a, b, i, j) ==
    IF j > i THEN 0 ELSE a[j] * b[i - j + 1] + Column(a, b, i, j + 1)

\* the bytes of a * b from byte i on, the carry of the bytes below coming in
RECURSIVE MulFrom(_, _, _, _)
MulFrom(a, b, i, carry) ==
    IF i > WordBytes THEN Empty
    ELSE LET sum(s) == <<s % ByteBase>> \o MulFrom(a, b, i + 1, s \div ByteBase)
         IN  Only({sum(s) : s \in {carry + Column(a, b, i, 1)}})

\* a * b in int64
Mul64(a, b) == MulFrom(a, b, 1, 0)

\* jar.go:153-163 for a cookie without an Expires attribute: whether the
\* cookie is removed, and else the time.Duration that now.Add adds to now
maxAgeLifetime(maxAge) ==
    IF IsNeg64(maxAge) THEN [remove |-> TRUE, d |-> Int64(Empty), session |-> FALSE]
    ELSE IF IsPos64(maxAge)
    THEN [remove |-> FALSE, d |-> Mul64(maxAge, SecondNs), session |-> FALSE]
    ELSE [remove |-> FALSE, d |-> Int64(Empty), session |-> TRUE]

WideBytes == {1, 2, 34, 59, 127, 128, 200, 255}

WideAges ==
    {Int64([i \in 1..k |-> IF i = k THEN b ELSE 0]) : b \in WideBytes, k \in 1..WordBytes}
    \cup {Int64(<<4, 125, 193, 37, 2>>),      \* 9223372036 = 0x225C17D04
          Int64(<<5, 125, 193, 37, 2>>),      \* 9223372037
          Int64(<<255, 255, 255, 255, 255, 255, 255, 127>>),  \* the largest int
          Int64(<<255, 255, 255, 255, 255, 255, 255, 255>>),  \* -1
          Int64(Empty),                       \* 0
          Int64(<<12>>)}

\* the cookie's MaxAge before the call
InitWide ==
    /\ psl = Nil
    /\ ent = EmptyMap
    /\ last \in {[noCall EXCEPT !.op = "MaxAge", !.raw = a] : a \in WideAges}
    /\ owner = EmptyMap
    /\ kept = EmptyMap
    /\ evicted = {}
    /\ nset = 0
    /\ NoCallers

\* newEntry works out the lifetime of the entry (jar.go:153-163)
Lifetime ==
    /\ last.op = "MaxAge"
    /\ \E r \in {maxAgeLifetime(last.raw)} :
           last' = [last EXCEPT !.op = IF r.session THEN "session" ELSE "Add",
                                !.remove = r.remove, !.host = r.d]
    /\ UNCHANGED <<psl, ent, owner, kept, evicted, nset, stepVars>>

NextWide == Lifetime

SpecWide == InitWide /\ [][NextWide]_vars

(***************************************************************************)
(* SpecParse: Parse as a function of the header text.  The texts are       *)
(* "n=v" followed by up to MaxAttrs segments, each after a ";": empty and  *)
(* blank segments, an empty key, attributes Parse knows with a good, a bad *)
(* and no value, an unknown attribute and bytes no attribute may hold; and *)
(* a few texts whose name or value Parse refuses.                          *)
(***************************************************************************)
ParseSegments ==
    {Empty,                                              \* ""
     <<Space>>,                                          \* " "
     <<Equals, 98>>,                                     \* "=b"
     <<68, 111, 109, 97, 105, 110, Equals>>,             \* "Domain="
     <<68, 111, 109, 97, 105, 110>>,                     \* "Domain"
     <<Space, 100, 111, 109, 97, 105, 110, Equals>> \o sDotAC,  \* " domain=.A.c"
     <<80, 97, 116, 104, Equals>>,                       \* "Path="
     <<77, 97, 120, Hyphen, 65, 103, 101, Equals, 120>>, \* "Max-Age=x"
     <<77, 97, 120, Hyphen, 65, 103, 101, Equals, 48>>,  \* "Max-Age=0"
     <<107, Equals, Quote>>,                             \* "k=" and a lone quote
     <<Tab, 98, 1>>,                                     \* tab, "b", byte 0x01
     <<83, 101, 99, 117, 114, 101>>}                     \* "Secure"

ParseTexts ==
    {Join(<<sN \o <<Equals>> \o sV>> \o segs, Semi) :
        segs \in UNION {[1..n -> ParseSegments] : n \in 0..MaxAttrs}}
    \cup {Empty, sN, <<Equals>> \o sV, sN \o <<Equals>>,
          sN \o <<Equals, Quote>> \o sV \o <<Space, Quote, Space>>,
          sN \o <<Equals, Quote>>}

\* the header text before the call
InitParse ==
    /\ psl = Nil
    /\ ent = EmptyMap
    /\ last \in {[noCall EXCEPT !.op = "text", !.raw = t] : t \in ParseTexts}
    /\ owner = EmptyMap
    /\ kept = EmptyMap
    /\ evicted = {}
    /\ nset = 0
    /\ NoCallers

\* c, err := Parse(raw)
ParseHeader ==
    /\ last.op = "text"
    /\ \E r \in {Parse(last.raw)} :
           last' = [last EXCEPT !.op = "Parse", !.parsed = r.c, !.err = r.err]
    /\ UNCHANGED <<psl, ent, owner, kept, evicted, nset, stepVars>>

NextParse == ParseHeader

SpecParse == InitParse /\ [][NextParse]_vars

(***************************************************************************)
(* SpecSteps: encode loop by loop.  procs holds the local variables of the *)
(* one call: a step is the code before the loops, the head of a pass of    *)
(* `for rem > 0`, one code point of the scan `for _, r := range s` or one  *)
(* turn of the digit loop.  rem0 is history: rem at the head of the pass.  *)
(* The labels are those of SpecPuny; their numbers stay far below 1<<31,   *)
(* so no int32 wraps.  SpecStepsFair lets the call run on: a goroutine     *)
(* that can take a step takes it.                                          *)
(***************************************************************************)
\* the local variables of encode before its first statement
encodeLocals(s) ==
    [pc |-> "start", s |-> s, n |-> initialN, bias |-> initialBias,
     d |-> 0, b |-> 0, h |-> 0, m |-> 0, q |-> 0, k |-> 0, rem |-> 0, i |-> 0,
     buf |-> Empty, err |-> Nil, rem0 |-> 0]

\* the locals of the call
Enc == procs["encode"]

\* a step of encode that leaves its locals as next
EncStep(next) ==
    /\ procs' = [procs EXCEPT !["encode"] = next]
    /\ UNCHANGED <<psl, ent, last, owner, kept, evicted, nset, mutex, dir, heap>>

\* the label before the call
InitSteps ==
    /\ psl = Nil
    /\ ent = EmptyMap
    /\ last = noCall
    /\ owner = EmptyMap
    /\ kept = EmptyMap
    /\ evicted = {}
    /\ nset = 0
    /\ mutex = "absent"
    /\ dir = EmptyMap
    /\ heap = EmptyMap
    /\ procs \in {[e \in {"encode"} |-> encodeLocals(l)] : l \in Labels}

\* the prefix, the ASCII code points, the separator; h = b
EncodeStart ==
    /\ Enc.pc = "start"
    /\ LET ascii == SelectSeq(Enc.s, LAMBDA r : r < 128)
       IN  EncStep([Enc EXCEPT !.pc = "pass",
                               !.b = Len(ascii),
                               !.h = Len(ascii),
                               !.rem = Len(Enc.s) - Len(ascii),
                               !.buf = <<120, 110, 45, 45>> \o ascii
                                       \o (IF Len(ascii) > 0 THEN <<45>> ELSE Empty)])

\* for rem > 0 { m = minimum; d = d + ((m - n) * (h + 1)); n = m; if d < 0 ... }
Pass ==
    /\ Enc.pc = "pass"
    /\ IF Enc.rem <= 0 THEN EncStep([Enc EXCEPT !.pc = "return"])
       ELSE \E m \in {minRune(Enc.s, Enc.n)} :
            \E d \in {Enc.d + ((m - Enc.n) * (Enc.h + 1))} :
                EncStep([Enc EXCEPT !.pc = IF d < 0 THEN "return" ELSE "scan",
                                    !.err = IF d < 0 THEN errInvalidDomain ELSE Nil,
                                    !.m = m, !.d = d, !.n = m, !.i = 0,
                                    !.rem0 = Enc.rem])

\* for _, r := range s: r < n, r > n, or q = d; k = base; after the last
\* code point d++ and n++
Scan ==
    /\ Enc.pc = "scan"
    /\ IF Enc.i >= Len(Enc.s)
       THEN EncStep([Enc EXCEPT !.pc = "pass", !.d = @ + 1, !.n = @ + 1])
       ELSE \E r \in {At(Enc.s, Enc.i)} :
            IF r < Enc.n
            THEN IF Enc.d = MaxInt32
                 THEN EncStep([Enc EXCEPT !.pc = "return", !.err = errInvalidDomain])
                 ELSE EncStep([Enc EXCEPT !.d = @ + 1, !.i = @ + 1])
            ELSE IF r > Enc.n THEN EncStep([Enc EXCEPT !.i = @ + 1])
            ELSE EncStep([Enc EXCEPT !.pc = "digits", !.q = Enc.d, !.k = base])

\* one turn of `for { ... }` that does not break
Digit ==
    /\ Enc.pc = "digits"
    /\ \E t \in {threshold(Enc.k, Enc.bias)} :
           /\ ~(Enc.q < t)
           /\ EncStep([Enc EXCEPT
                  !.buf = @ \o <<digitByte(t + ((Enc.q - t) % (base - t)))>>,
                  !.q = (Enc.q - t) \div (base - t),
                  !.k = @ + base])

\* the turn that breaks, the last digit and the bookkeeping after it
LastDigit ==
    /\ Enc.pc = "digits"
    /\ Enc.q < threshold(Enc.k, Enc.bias)
    /\ EncStep([Enc EXCEPT
           !.pc = "scan",
           !.buf = @ \o <<digitByte(Enc.q)>>,
           !.bias = adapt(Enc.d, Enc.h + 1, Enc.h = Enc.b),
           !.d = 0,
           !.h = @ + 1,
           !.rem = @ - 1,
           !.i = @ + 1])

\* return string(buf), nil or return "", errInvalidDomain
EncodeReturn ==
    /\ Enc.pc = "return"
    /\ procs' = [procs EXCEPT !["encode"].pc = "done"]
    /\ last' = [noCall EXCEPT !.op = "encode", !.raw = Enc.s, !.err = Enc.err,
                              !.host = IF Enc.err = Nil THEN Enc.buf ELSE Empty]
    /\ UNCHANGED <<psl, ent, owner, kept, evicted, nset, mutex, dir, heap>>

NextSteps == EncodeStart \/ Pass \/ Scan \/ Digit \/ LastDigit \/ EncodeReturn

SpecSteps == InitSteps /\ [][NextSteps]_vars

SpecStepsFair == SpecSteps /\ WF_vars(NextSteps)

(***************************************************************************)
(* Properties.                                                             *)
(***************************************************************************)
\* the last call was a Cookies call that returned a result
GotOk == last.op = "Cookies" /\ last.err = Nil
\* the last call was a SetCookie call that returned no error
SetOk == last.op = "SetCookie" /\ last.err = Nil

\* h ends with "." + d
IsSubHost(h, d) ==
    Len(h) > Len(d) /\ SubSeq(h, Len(h) - Len(d), Len(h)) = <<Dot>> \o d

\* the entries of the bucket of the last call's host
LastRoot == domainRoot(last.host, psl)
LastBucket == IF LastRoot \in DOMAIN ent THEN Values(ent[LastRoot]) ELSE {}

\* e is past its lifetime at time t
Dead(e, t) == e.Expires # 0 /\ e.Expires <= t

\* C1: a successful Cookies(scheme, host, path, now) returns no cookie taken
\* from an entry whose Expires is non-zero and not after now.
C1_NoExpiredReturned ==
    GotOk => \A e \in last.from : ~Dead(e, last.now)

\* C2: after a successful SetCookie whose disposition is delete, no entry
\* with the Key Domain;Path;Name of that cookie is in the bucket of the
\* host's root.
C2_DeleteRemoves ==
    (SetOk /\ last.remove) =>
        <<LastRoot, entryKey(last.entry)>> \notin Slots(ent)

\* C3: in every reachable state, with or without a public suffix list, the
\* host that stored an entry equals the entry's Domain when the entry is
\* host-only, and equals the Domain or ends with "." + Domain otherwise.
C3_DomainCoversSetter ==
    \A sl \in Slots(ent) :
        LET e == ent[sl[1]][sl[2]]
            h == owner[sl]
        IN  IF e.HostOnly THEN e.Domain = h
            ELSE h = e.Domain \/ IsSubHost(h, e.Domain)

\* C4: Cookies returns a cookie from an entry only if the request host equals
\* the entry's Domain, or the entry is not host-only and the host ends with
\* "." + Domain.
C4_SentOnlyWithinDomain ==
    GotOk => \A e \in last.from :
                 \/ last.host = e.Domain
                 \/ ~e.HostOnly /\ IsSubHost(last.host, e.Domain)

\* a request from the sub-host w.a.c is answered with a domain cookie of a.c
C4_Witness ==
    /\ GotOk
    /\ last.host = sWAC
    /\ \E e \in last.from : ~e.HostOnly /\ e.Domain = sAC

\* the domain attribute after one leading dot is stripped, lowercased
NormDomain(d) ==
    ToLower(IF d # Empty /\ d[1] = Dot THEN SubSeq(d, 2, Len(d)) ELSE d)

\* d is not empty and neither starts nor ends with a dot
WellFormed(d) == d # Empty /\ d[1] # Dot /\ d[Len(d)] # Dot

\* call l is a SetCookie with a domain attribute, on a jar with a public
\* suffix list, that got as far as the validation of the domain
C5Case(l) ==
    /\ l.op = "SetCookie"
    /\ psl # Nil
    /\ l.err \notin {errInvalidScheme, errAddr, errInvalidDomain, Panic}
    /\ l.domain # Empty

\* what C5 says of such a call, which took the jar from j to j2
C5Says(l, j, j2) ==
    LET d == NormDomain(l.domain)
    IN  /\ (d \in PublicSuffixes /\ l.host # d) =>
               (l.err = errIllegalDomain /\ j2 = j)
        /\ (d \in PublicSuffixes /\ l.host = d) =>
               /\ l.err = Nil
               /\ ~l.remove =>
                      /\ l.entry.HostOnly
                      /\ l.entry.Domain = l.host
                      /\ <<l.entry.Root, l.entry.Key>> \in Slots(j2)
                      /\ j2[l.entry.Root][l.entry.Key] = l.entry
        /\ (l.host # d /\ ~IsSubHost(l.host, d)) =>
               (l.err = errIllegalDomain /\ j2 = j)

\* C5 as stated: with a public suffix list, a SetCookie whose domain
\* attribute is a public suffix fails with IllegalDomain and stores nothing
\* unless the host equals it, and then the entry is host-only with Domain =
\* host; a domain attribute that is neither the host nor a parent of the host
\* fails with IllegalDomain.
C5_Original == [][C5Case(last') => C5Says(last', ent, ent')]_vars

\* C5, amended: the same for a host that is not an IP address and a domain
\* attribute that is well formed (an IP host gets NoHostname, a stray dot
\* MalformedDomain).
C5_Amended ==
    [][(/\ C5Case(last')
        /\ ~isIP(last'.host)
        /\ WellFormed(NormDomain(last'.domain)))
       => C5Says(last', ent, ent')]_vars

\* host a.c asked for the public suffix c and was refused, the jar not empty
C5_Witness ==
    /\ last.op = "SetCookie"
    /\ psl = PslList
    /\ last.host = sAC
    /\ last.domain = sC
    /\ last.err = errIllegalDomain
    /\ ent # EmptyMap

\* request path p matches cookie path cp
PathMatches(p, cp) ==
    \/ p = cp
    \/ /\ Len(p) > Len(cp)
       /\ SubSeq(p, 1, Len(cp)) = cp
       /\ (cp[Len(cp)] = Slash \/ p[Len(cp) + 1] = Slash)

\* the last Cookies call is one that C6 says entry e is returned to
C6Case(e) ==
    /\ last.host = e.Domain \/ IsSubHost(last.host, e.Domain)
    /\ LastRoot = e.Root
    /\ PathMatches(last.path, e.Path)
    /\ last.scheme = "https" \/ ~e.Secure
    /\ e.Expires = 0 \/ e.Expires > last.now

\* C6 as stated: once a SetCookie with an accepted domain attribute D has
\* kept a cookie, and no later SetCookie had the same Key, every Cookies call
\* from a host G = D or G ending with "." + D, of the same root, with a
\* matching path and scheme, at a time before Expires, returns a cookie of
\* that Name and Value.
C6_Original ==
    GotOk => \A sl \in DOMAIN kept :
                 (~kept[sl].HostOnly /\ C6Case(kept[sl])) =>
                     \E c \in Returned : /\ c.Name = kept[sl].Name
                                         /\ c.Value = kept[sl].Value

\* C6, amended: the same, as long as no Cookies call made since that
\* SetCookie at or after the entry's Expires has read the entry's bucket;
\* the cookie returned is the one of that entry.  (It holds of host-only
\* entries too, for G = Domain.)
C6_Amended ==
    GotOk => \A sl \in (DOMAIN kept) \ evicted :
                 (/\ ~kept[sl].HostOnly \/ last.host = kept[sl].Domain
                  /\ C6Case(kept[sl]))
                 => kept[sl] \in last.from

\* a Secure domain cookie of a.c with Path /f and a lifetime is returned to
\* https://w.a.c/f/b before it expires
C6_Witness ==
    /\ GotOk
    /\ last.host = sWAC /\ last.path = sFB /\ last.scheme = "https"
    /\ \E sl \in (DOMAIN kept) \ evicted :
           /\ ~kept[sl].HostOnly /\ kept[sl].Domain = sAC
           /\ kept[sl].Path = sF /\ kept[sl].Secure
           /\ kept[sl].Expires > last.now
           /\ kept[sl] \in last.from

\* C7: a SetCookie or Cookies call that returns an error leaves the jar as it
\* was; a Cookies call with an invalid scheme evicts nothing.
C7_ErrorLeavesJar == [][last'.err # Nil => ent' = ent]_vars

\* Cookies was refused for its scheme while the jar held an expired entry
C7_Witness ==
    /\ last.op = "Cookies"
    /\ last.err = errInvalidScheme
    /\ \E e \in Entries(ent) : Dead(e, last.now)

\* C8 as stated: after a successful Cookies or SetCookie call at time now
\* whose host resolves to root R, bucket R holds no entry with non-zero
\* Expires not after now.
C8_Original ==
    (GotOk \/ SetOk) => \A e \in LastBucket : ~Dead(e, last.now)

\* C8, amended: after a successful Cookies call at time now whose host
\* resolves to root R, bucket R holds no entry with non-zero Expires not
\* after now (SetCookie evicts nothing).
C8_Amended ==
    GotOk => \A e \in LastBucket : ~Dead(e, last.now)

\* a Cookies call took an expired entry out of a bucket that holds another
C8_Witness ==
    /\ GotOk
    /\ LastBucket # {}
    /\ \E sl \in evicted : /\ sl[1] = LastRoot
                           /\ Dead(kept[sl], last.now)
                           /\ sl \notin Slots(ent)

\* C9: after a successful Cookies call at time now, the bucket of the host's
\* root is either absent or holds an entry, and none it holds has a non-zero
\* Expires not after now, whether the request matched the entry or not.
C9_ReadEvicts ==
    GotOk => /\ LastRoot \in DOMAIN ent => DOMAIN ent[LastRoot] # {}
             /\ \A e \in LastBucket : e.Expires = 0 \/ e.Expires > last.now

\* a request from a.c evicted the host-only entry of w.a.c, the only entry of
\* the bucket, and the bucket is gone
C9_Witness ==
    /\ GotOk
    /\ last.host = sAC
    /\ LastRoot \notin DOMAIN ent
    /\ \E sl \in evicted : /\ sl[1] = LastRoot
                           /\ kept[sl].HostOnly /\ kept[sl].Domain = sWAC
                           /\ Dead(kept[sl], last.now)
                           /\ kept[sl] \notin last.from

\* C10: no root maps to an empty bucket.
C10_NoEmptyBucket == \A r \in DOMAIN ent : DOMAIN ent[r] # {}

\* a Cookies call removed the last entry of the jar
C10_Witness ==
    /\ GotOk
    /\ ent = EmptyMap
    /\ \E sl \in evicted : sl[1] = LastRoot /\ Dead(kept[sl], last.now)

\* entry e is in jar j under its Root and Key
Stored(j, e) == <<e.Root, e.Key>> \in Slots(j) /\ j[e.Root][e.Key] = e

\* what C11 says of a successful SetCookie call l that took the jar from j
\* to j2
C11Says(l, j, j2) ==
    /\ l.maxAge > 0 =>
           /\ ~l.remove
           /\ l.entry.Expires = l.now + l.maxAge * Second
           /\ Stored(j2, l.entry)
    /\ (l.maxAge = 0 /\ l.expires # 0 /\ l.expires > l.now) =>
           /\ ~l.remove
           /\ l.entry.Expires = l.expires
           /\ Stored(j2, l.entry)
    /\ (l.maxAge = 0 /\ l.expires = 0) =>
           /\ ~l.remove
           /\ l.entry.Expires = 0
           /\ Stored(j2, l.entry)
    /\ (l.maxAge < 0 \/ (l.maxAge = 0 /\ l.expires # 0 /\ l.expires <= l.now)) =>
           /\ l.remove
           /\ j2 = j

InRange(rd) == 0 <= rd[2] /\ rd[2] < Len(rd[1])

\* C12: Cookies sends an entry that the scheme and the host allow iff the
\* request path p equals its Path P, or P is a prefix of p and P ends with
\* "/" or the byte of p after the prefix is "/"; the test indexes no byte
\* beyond the end of p or P, for the empty request path too.
C12_PathMatch ==
    GotOk => \A e \in LastBucket :
                 /\ \A rd \in shouldSendReads(e, last.path) : InRange(rd)
                 /\ (/\ last.scheme = "https" \/ ~e.Secure
                     /\ \/ last.host = e.Domain
                        \/ ~e.HostOnly /\ IsSubHost(last.host, e.Domain))
                    => (e \in last.from <=> PathMatches(last.path, e.Path))

\* a request for "/fb" got the entry of Path "/" and not the one of Path "/f"
C12_Witness ==
    /\ GotOk
    /\ last.path = sFb
    /\ \E e \in LastBucket : e.Path = sF /\ e \notin last.from
    /\ \E e \in LastBucket : e.Path = sRoot /\ e \in last.from

\* C13: Cookies returns a cookie of an entry stored with Secure = true only
\* when its scheme is "https", never when it is "http", whatever the host
\* and the path.
C13_SecureOnlyHttps ==
    GotOk => \A e \in last.from : e.Secure => last.scheme = "https"

\* http://w.a.c/f/b was not given the Secure domain entry of a.c with Path
\* "/f", which its host and path match
C13_Witness ==
    /\ GotOk
    /\ last.scheme = "http" /\ last.host = sWAC /\ last.path = sFB
    /\ \E e \in LastBucket :
           /\ e.Secure /\ ~e.HostOnly /\ e.Domain = sAC /\ e.Path = sF
           /\ e \notin last.from

\* C14: no SetCookie or Cookies call panics, whatever the scheme, the host
\* (the empty one and one that starts with ":" too), the path and the public
\* suffix list: every call returns a result or an error.
C14_NoPanic == last.err # Panic

\* s holds no dot
IsLabel(s) == \A i \in 1..Len(s) : s[i] # Dot

\* what C15 says of the root r that domainRoot gave for host h
C15Says(h, r) ==
    IF isIP(h) \/ (psl # Nil /\ PublicSuffix(psl, h) = h) THEN r = h
    ELSE \/ r = Empty
         \/ /\ psl # Nil
            /\ r = h \/ IsSubHost(h, r)
            /\ \E n \in 1..Len(r) :
                   /\ IsLabel(SubSeq(r, 1, n))
                   /\ SubSeq(r, n + 1, Len(r)) = <<Dot>> \o PublicSuffix(psl, h)

\* C15: the root domainRoot(host, psl) gives, here the bucket every stored
\* entry is under, is host when host is an IP address or its own public
\* suffix, and otherwise either the empty string or host from a label
\* boundary on, made of one label, "." and PublicSuffix(host); for every
\* public suffix list.
C15_RootForm == \A sl \in Slots(ent) : C15Says(owner[sl], sl[1])

\* position i of l lies between a "[" and the "]" that closes it
InBrackets(l, i) ==
    /\ \E j \in 1..(i - 1) :
           l[j] = LBrack /\ \A k \in (j + 1)..(i - 1) : l[k] # RBrack
    /\ \E k \in (i + 1)..Len(l) : l[k] = RBrack

\* the colons of l outside brackets
OutsideColons(l) == {i \in 1..Len(l) : l[i] = Colon /\ ~InBrackets(l, i)}

\* the "]" of l when l is a bracketed literal followed by ":port"
LiteralEnd(l) ==
    {e \in 2..(Len(l) - 1) :
        /\ l[1] = LBrack /\ l[e] = RBrack /\ l[e + 1] = Colon
        /\ \A k \in 2..(e - 1) : l[k] # RBrack
        /\ \A k \in (e + 2)..Len(l) : l[k] \notin {Colon, LBrack, RBrack}}

\* l with its port removed (of a bracketed literal, the literal)
RefNoPort(l) ==
    IF LiteralEnd(l) # {}
    THEN SubSeq(l, 2, (CHOOSE e \in LiteralEnd(l) : TRUE) - 1)
    ELSE IF Cardinality(OutsideColons(l)) = 1
         THEN SubSeq(l, 1, (CHOOSE i \in OutsideColons(l) : TRUE) - 1)
    ELSE l

\* h with every label that is not pure ASCII replaced by its encoding
RefLabels(h) ==
    LET ls == Split(h, Dot)
    IN  Join([i \in 1..Len(ls) |->
                 IF isASCII(ls[i]) THEN ls[i] ELSE encode(ls[i]).str], Dot)

\* the reference canonicalisation of host h
RefHost(h) == RefLabels(RefNoPort(ToLower(h)))

\* C16: canonicalHost(host) returns, and when it returns a host this is the
\* reference canonicalisation: host in lower case, without its port when it
\* has exactly one ":" outside brackets or is a bracketed literal followed by
\* ":port", every ASCII label as it is and every other label in its punycode
\* encoding, joined with "." in the same order.
C16_CanonicalHost ==
    last.op = "canonicalHost" =>
        /\ last.err # Panic
        /\ last.err = Nil => last.host = RefHost(last.raw)

(***************************************************************************)
(* RFC 3492, read from the decoder's side.  The decoder keeps a code point *)
(* n (128 at the start) and a position i (0 at the start) and, for every   *)
(* delta, goes i := i + delta, n := n + i div (out + 1), i := i mod        *)
(* (out + 1), inserts n at position i of its output of length out, and     *)
(* i := i + 1.  So the deltas of a label are the differences of the        *)
(* numbers (n - 128) * (out + 1) + i of its insertions, taken in the order *)
(* of the code points and, for equal code points, of the positions.        *)
(***************************************************************************)
\* the positions of the non-basic code points of s
NonBasic(s) == {i \in 1..Len(s) : s[i] >= 128}

\* how many non-basic code points are inserted before the one at i
Rank(s, i) ==
    Cardinality({j \in NonBasic(s) : s[j] < s[i] \/ (s[j] = s[i] /\ j < i)})

\* the length of the decoder's output before it inserts the one at i
OutLen(s, i) == Len(s) - Cardinality(NonBasic(s)) + Rank(s, i)

\* the position the decoder inserts the one at i at
InsertAt(s, i) ==
    Cardinality({j \in 1..(i - 1) : j \notin NonBasic(s) \/ Rank(s, j) < Rank(s, i)})

\* the position of the k-th insertion (k from 0)
Nth(s, k) == CHOOSE i \in NonBasic(s) : Rank(s, i) = k

\* the delta of the k-th insertion
RefDelta(s, k) ==
    LET i   == Nth(s, k)
        out == OutLen(s, i)
        to  == (s[i] - initialN) * (out + 1) + InsertAt(s, i)
        p   == Nth(s, k - 1)
    IN  IF k = 0 THEN to
        ELSE to - ((s[p] - initialN) * (out + 1) + InsertAt(s, p) + 1)

\* RFC 3492, 6.1: bias adaptation
RECURSIVE RefAdaptLoop(_, _)
RefAdaptLoop(delta, k) ==
    IF delta > ((base - tmin) * tmax) \div 2
    THEN RefAdaptLoop(delta \div (base - tmin), k + base)
    ELSE k + ((base - tmin + 1) * delta) \div (delta + skew)

RefAdapt(delta, numpoints, firsttime) ==
    LET d == IF firsttime THEN delta \div damp ELSE delta \div 2
    IN  RefAdaptLoop(d + d \div numpoints, 0)

\* RFC 3492, 5: the digits a..z, 0..9
RefDigit(d) ==
    <<97, 98, 99, 100, 101, 102, 103, 104, 105, 106, 107, 108, 109, 110, 111,
      112, 113, 114, 115, 116, 117, 118, 119, 120, 121, 122,
      48, 49, 50, 51, 52, 53, 54, 55, 56, 57>>[d + 1]

\* RFC 3492, 6.3: q as a generalized variable-length integer, k = base, 2 base, ...
RECURSIVE RefVarInt(_, _, _)
RefVarInt(q, k, bias) ==
    LET t == IF k <= bias THEN tmin ELSE IF k >= bias + tmax THEN tmax ELSE k - bias
    IN  IF q < t THEN <<RefDigit(q)>>
        ELSE <<RefDigit(t + ((q - t) % (base - t)))>>
             \o RefVarInt((q - t) \div (base - t), k + base, bias)

\* the digits of the deltas from the k-th on
RECURSIVE RefDigits(_, _, _)
RefDigits(s, k, bias) ==
    IF k >= Cardinality(NonBasic(s)) THEN Empty
    ELSE LET delta == RefDelta(s, k)
         IN  RefVarInt(delta, base, bias)
             \o RefDigits(s, k + 1,
                          RefAdapt(delta, OutLen(s, Nth(s, k)) + 1, k = 0))

\* "xn--", the basic code points, "-" if there is one, the digits
RefEncode(s) ==
    LET basic == SelectSeq(s, LAMBDA r : r < initialN)
    IN  <<120, 110, 45, 45>> \o basic \o (IF basic # Empty THEN <<45>> ELSE Empty)
        \o RefDigits(s, 0, initialBias)

\* the examples: input and output
C17Examples ==
    {<<sBucher, <<120, 110, 45, 45, 98, 99, 104, 101, 114, 45, 107, 118, 97>>>>,
     <<Empty,   <<120, 110, 45, 45>>>>,
     <<<<252>>, <<120, 110, 45, 45, 116, 100, 97>>>>,
     <<sBooks,  <<120, 110, 45, 45, 98, 111, 111, 107, 115, 45>>>>}

\* C17: encode(label) returns "xn--" and the RFC 3492 encoding of label:
\* its ASCII code points in their order, "-" iff there is one, and the
\* digits of every delta in the order of the code points; "bücher" gives
\* "xn--bcher-kva", "" gives "xn--", "ü" gives "xn--tda" and "books" gives
\* "xn--books-".
C17_EncodeIsRFC ==
    last.op = "encode" =>
        /\ last.err = Nil
        /\ last.host = RefEncode(last.raw)
        /\ \A x \in C17Examples : last.raw = x[1] => last.host = x[2]

\* "bücher" was encoded
C17_Witness ==
    /\ last.op = "encode"
    /\ last.raw = sBucher
    /\ last.host = <<120, 110, 45, 45, 98, 99, 104, 101, 114, 45, 107, 118, 97>>

(***************************************************************************)
(* C18.  Codec round trip.  For every cookie with a valid name and value   *)
(* and no Domain, Path or Expires, Marshal(true) succeeds and writes the   *)
(* value in double quotes exactly when it starts or ends with a space or a *)
(* comma, and Parse of that text succeeds and gives back the Name, the     *)
(* Value, both flags and the Unparsed attributes, a positive MaxAge as it  *)
(* is and a negative MaxAge as -1.                                         *)
(***************************************************************************)
C18Case(c) ==
    /\ isValidName(c.Name)
    /\ isValidValue(c.Value)
    /\ c.Domain = Empty /\ c.Path = Empty /\ c.Expires = 0

EndsQuoted(v) ==
    v[1] \in {Space, Comma} \/ v[Len(v)] \in {Space, Comma}

C18Text(c) ==
    c.Name \o <<Equals>>
    \o (IF EndsQuoted(c.Value) THEN <<Quote>> \o c.Value \o <<Quote>> ELSE c.Value)
    \o (IF c.MaxAge < 0
        THEN <<Semi, Space, 77, 97, 120, Hyphen, 65, 103, 101, Equals, 48>>
        ELSE Empty)

C18Back(c, d) ==
    /\ d.Name = c.Name
    /\ d.Value = c.Value
    /\ d.Secure = c.Secure
    /\ d.HttpOnly = c.HttpOnly
    /\ d.Unparsed = c.Unparsed
    /\ d.MaxAge = (IF c.MaxAge < 0 THEN -1 ELSE c.MaxAge)

C18_RoundTrip ==
    C18Case(last.cookie) =>
        /\ last.op = "Marshal" =>
               /\ last.err = Nil
               /\ HasPrefix(last.raw, C18Text(last.cookie))
        /\ last.op = "Parse" =>
               /\ last.err = Nil
               /\ C18Back(last.cookie, last.parsed)

(***************************************************************************)
(* C19.  The frame of SetCookie.                                           *)
(***************************************************************************)
\* Domain;Path;Name
ScopeKey(e) == e.Domain \o <<Semi>> \o e.Path \o <<Semi>> \o e.Name

\* at most one entry of a bucket of j per Domain, Path and Name
OnePerScope(j) ==
    \A r \in DOMAIN j : \A k1, k2 \in DOMAIN j[r] :
        ScopeKey(j[r][k1]) = ScopeKey(j[r][k2]) => k1 = k2

\* what C19 says of a successful SetCookie call that kept entry e and took
\* the jar from j to j2
C19Says(e, j, j2) ==
    LET slot == <<e.Root, e.Key>>
    IN  /\ e.Key = ScopeKey(e)
        /\ Slots(j2) = Slots(j) \cup {slot}
        /\ j2[e.Root][e.Key] = e
        /\ \A sl \in Slots(j) \ {slot} : j2[sl[1]][sl[2]] = j[sl[1]][sl[2]]
        /\ OnePerScope(j2)

\* C19: a successful SetCookie that keeps the cookie creates or replaces the
\* entry under (Root, Key = Domain;Path;Name) by the new entry and changes no
\* other slot of any bucket; a bucket holds at most one entry per Domain, Path
\* and Name.
C19_SetFrame ==
    [][(last'.op = "SetCookie" /\ last'.err = Nil /\ ~last'.remove)
       => C19Says(last'.entry, ent, ent')]_vars

\* the second SetCookie stored its entry and the entry of the first, in
\* another bucket or under another key of the same bucket, is still there
C19_Witness ==
    /\ SetOk
    /\ ~last.remove
    /\ nset = 2
    /\ Stored(ent, last.entry)
    /\ \E sl \in Slots(ent) :
           /\ sl # <<last.entry.Root, last.entry.Key>>
           /\ sl \in DOMAIN kept
           /\ ent[sl[1]][sl[2]] = kept[sl]

(***************************************************************************)
(* C20.  The frame of Cookies.                                             *)
(***************************************************************************)
\* what C20 says of a Cookies call l that took the jar from j to j2
C20Says(l, j, j2) ==
    LET root == domainRoot(l.host, psl)
        gone == Slots(j) \ Slots(j2)
    IN  /\ Slots(j2) \subseteq Slots(j)
        /\ \A sl \in Slots(j2) : j2[sl[1]][sl[2]] = j[sl[1]][sl[2]]
        /\ DOMAIN j2 = {sl[1] : sl \in Slots(j2)}
        /\ l.err # Nil => gone = {}
        /\ l.err = Nil =>
               gone = {sl \in Slots(j) : /\ sl[1] = root
                                         /\ Dead(j[sl[1]][sl[2]], l.now)}

\* C20: a Cookies call adds no entry, modifies none and touches no bucket but
\* that of the request host's root; all it removes are the entries of that
\* bucket with a non-zero Expires not after now, and the bucket once it is
\* empty; session entries and unexpired entries stay.
C20_CookiesFrame ==
    [][last'.op = "Cookies" => C20Says(last', ent, ent')]_vars

\* a Cookies call removed an expired entry, and the entry of another bucket
\* or a session or unexpired entry of the same bucket is still in the jar
C20_Witness ==
    /\ GotOk
    /\ \E sl \in evicted : /\ sl[1] = LastRoot
                           /\ Dead(kept[sl], last.now)
                           /\ sl \notin Slots(ent)
    /\ \E sl \in Slots(ent) : ~Dead(ent[sl[1]][sl[2]], last.now)

(***************************************************************************)
(* C21.  Stored entries are well formed.                                   *)
(***************************************************************************)
\* entry e held in bucket r under map key k
WellFormedEntry(r, k, e) ==
    /\ e.Root = r
    /\ e.Key = k
    /\ k = ScopeKey(e)
    /\ Len(e.Path) > 0
    /\ e.Path[1] = Slash

\* C21: every entry held in bucket R under map key K has Root = R and
\* Key = K = Domain;Path;Name, and a Path that is non-empty and starts with
\* "/"; so the key Cookies computes from an entry of the bucket is the map key
\* of that entry.
C21_WellFormed ==
    \A r \in DOMAIN ent : \A k \in DOMAIN ent[r] :
        /\ WellFormedEntry(r, k, ent[r][k])
        /\ entryKey(ent[r][k]) = k

\* two entries are stored, one with the default Path "/" and one with the
\* Path its cookie gave
C21_Witness ==
    /\ SetOk
    /\ Stored(ent, last.entry)
    /\ last.entry.Path = sRoot
    /\ \E sl \in Slots(ent) : ent[sl[1]][sl[2]].Path = sFs

(***************************************************************************)
(* C22.  Calls are safe only when mutually exclusive.                      *)
(***************************************************************************)
\* every entry a SetCookie call stored, and no later call replaced or found
\* expired, is in the jar
StoredReachable ==
    \A sl \in (DOMAIN kept) \ evicted :
        sl \in Slots(ent) /\ ent[sl[1]][sl[2]] = kept[sl]

\* the buckets j.ent no longer holds
Dropped == (DOMAIN heap) \ {dir[r] : r \in DOMAIN dir}

\* C22, calls under a mutex: the runtime never finds two callers in one
\* map, no two pending statements race, one caller at most is inside a call,
\* and between calls the jar has no empty bucket, only well-formed entries,
\* and holds every stored entry.
C22_MutexSafe ==
    mutex # "absent" =>
        /\ last.op # "fatal"
        /\ \A p, q \in Callers : p # q => ~Races(p, q)
        /\ \A p \in Callers : procs[p].pc # "idle" => mutex = p
        /\ mutex = "free" =>
               /\ C10_NoEmptyBucket
               /\ C21_WellFormed
               /\ StoredReachable

\* C22, calls without a mutex: a SetCookie call has returned nil for a
\* session cookie, no call is pending, and its entry is in no bucket of the
\* jar: it sits in a bucket j.ent has dropped
C22_Witness ==
    /\ mutex = "absent"
    /\ \A p \in Callers : procs[p].pc = "idle"
    /\ SetOk
    /\ ~last.remove
    /\ last.entry.Expires = 0
    /\ <<last.entry.Root, last.entry.Key>> \notin Slots(ent)
    /\ \E b \in Dropped :
           /\ last.entry.Key \in DOMAIN heap[b]
           /\ heap[b][last.entry.Key] = last.entry

(***************************************************************************)
(* C23.  No entry is stored already expired.                               *)
(***************************************************************************)
\* C23: an entry newEntry keeps has a zero Expires or an Expires strictly
\* after its Created time: for every MaxAge > 0 of the int range the
\* duration MaxAge * time.Second that now.Add adds to now = Created, computed
\* in 64 bits, is positive.
C23_NotStoredExpired ==
    (last.op = "Add" /\ ~last.remove) => IsPos64(last.host)

(***************************************************************************)
(* C24.  Parse returns for every text.                                     *)
(***************************************************************************)
\* the segments of text after the first ";", trimmed
Segments(text) ==
    LET parts == Split(text, Semi)
    IN  {trim(parts[i]) : i \in 2..Len(parts)}

\* segment seg is empty, has an empty key, holds a byte no attribute may
\* hold, or has an "=" with an invalid or empty value after it
Malformed(seg) ==
    LET eq == IndexByte(seg, Equals)
    IN  \/ seg = Empty
        \/ eq = 0
        \/ ~isValidAttr(seg)
        \/ (eq > 0 /\ ~parseValue(Slice(seg, eq + 1, Len(seg))).ok)

\* C24: Parse returns, with a Cookie or an error, for every text; when it
\* returns a Cookie, every malformed attribute segment of the text is one of
\* the Cookie's Unparsed attributes.
C24_ParseReturns ==
    last.op = "Parse" =>
        /\ last.err # Panic
        /\ last.err = Nil =>
               \A seg \in Segments(last.raw) :
                   Malformed(seg) =>
                       \E i \in 1..Len(last.parsed.Unparsed) :
                           last.parsed.Unparsed[i] = seg

(***************************************************************************)
(* C25.  encode terminates.                                                *)
(***************************************************************************)
\* the non-ASCII code points of the label not encoded yet: those >= n
Remaining(e) == {i \in 1..Len(e.s) : e.s[i] >= 128 /\ e.s[i] >= e.n}

\* what C25 says of a step of encode from locals e to locals f
C25Step(e, f) ==
    \* the head of a pass finds m >= n among the remaining code points
    /\ (e.pc = "pass" /\ f.pc = "scan") =>
           /\ f.n >= e.n
           /\ \E i \in Remaining(e) : e.s[i] = f.n
           /\ \A i \in Remaining(e) : e.s[i] >= f.n
           /\ e.rem = Cardinality(Remaining(e))
    \* a pass ends with fewer code points remaining than it began with
    /\ (e.pc = "scan" /\ f.pc = "pass") => (e.rem < e.rem0 /\ e.rem >= 0)
    \* a turn of the digit loop leaves a smaller q
    /\ (e.pc = "digits" /\ f.pc = "digits") => (f.q < e.q /\ f.q >= 0)
    \* the loop ends when nothing remains
    /\ (e.pc = "pass" /\ f.pc = "return" /\ f.err = Nil) => e.rem = 0

\* C25: every pass of the outer loop finds a minimum m >= n among the
\* remaining non-ASCII code points and encodes at least one, every turn of
\* the digit loop leaves a smaller q, and so every call of encode returns,
\* with the text of the encode function or the overflow error.
C25_Terminates ==
    /\ [][C25Step(procs["encode"], procs'["encode"])]_vars
    /\ <>(procs["encode"].pc = "done")
    /\ [](procs["encode"].pc = "done" =>
              /\ last.err \in {Nil, errInvalidDomain}
              /\ last.host = encode(last.raw).str)

\* encode has returned for a label with two different non-ASCII code points
\* and an ASCII one, after a digit loop that took more than one turn
C25_Witness ==
    /\ procs["encode"].pc = "done"
    /\ last.err = Nil
    /\ procs["encode"].b > 0
    /\ procs["encode"].h - procs["encode"].b >= 2
    /\ procs["encode"].n > procs["encode"].m
    /\ procs["encode"].k > 2 * base
    /\ \E i, j \in 1..Len(last.raw) : last.raw[i] >= 128 /\ last.raw[j] > last.raw[i]

====
